---------------------------- MODULE Spec2Model ----------------------------
(***************************************************************************)
(* Model of the MeshCore panel coordinator                                 *)
(* (custom_components/meshcore_panel/__init__.py).                         *)
(*                                                                         *)
(* Strings are sequences of one-character strings, so that lower(),        *)
(* slicing and startswith() are computed and not assumed.  A Python dict   *)
(* is a function; the key order of the outer direct_links dict is kept in  *)
(* link_keys because the save iterates it while events may insert.         *)
(***************************************************************************)
EXTENDS Integers, Sequences, FiniteSets, TLC

VARIABLES
    now,                \* the value time.time() returns
    direct_links,       \* self.direct_links: node_a -> node_b -> link_data
    link_keys,          \* key order of self.direct_links (insertion order)
    last_message_times, \* self.last_message_times
    greeted_pubkeys,    \* self.greeted_pubkeys
    greet_enabled,      \* self.greet_enabled
    file_links,         \* www/meshcore_directlinks_persist.json
    file_messages,      \* www/meshcore_last_messages.json
    file_greeted,       \* www/meshcore_greeted.json
    n_events,           \* number of bus events handled so far
    n_hops,             \* number of consecutive path pairs recorded so far
    last_event,         \* the bus event the last step handled (NoEvent if none)
    calls,              \* the hass.services.call invocations of the last step
    greet_hist,         \* per identity: what its NEW_CONTACT events led to so far
    outbound_failed,    \* some hass.services.call has raised so far
    saver,              \* the _save_persisted_data call running on the worker thread
    swept,              \* hass.states.async_all() as the cleanup sweep of the last step saw it
    cleanup_enabled,    \* self.cleanup_enabled
    life,               \* the config entry: where setup or unload stands, self._unsub_listeners
    at_shutdown,        \* the caches as async_shutdown found them before its save
    hass_states,        \* hass.states as the export or lookup of the last step saw it
    lookup,             \* the last _get_node_info lookup: its prefix and what it returned
    file_heatmap,       \* www/meshcore_heatmap_data.json
    file_nodemap,       \* www/meshcore_nodemap_data.json
    file_directlinks,   \* www/meshcore_directlinks_data.json
    opened              \* the open(path, 'w') calls of the last step and how each write ended

vars == <<now, direct_links, link_keys, last_message_times, greeted_pubkeys,
          greet_enabled, file_links, file_messages, file_greeted,
          n_events, n_hops, last_event, calls, greet_hist, outbound_failed,
          saver, swept, cleanup_enabled, life, at_shutdown,
          hass_states, lookup, file_heatmap, file_nodemap, file_directlinks,
          opened>>

---------------------------------------------------------------------------
(* Bounds of the model *)

\* time.time() when the model starts (seconds since the epoch)
StartTime == 1700000000

\* entities hass.states.async_all() returns to a cleanup sweep
MaxContacts == 2

\* steps the clock takes in one behaviour
MaxTicks == 2

\* NEW_CONTACT events handled in one behaviour
MaxEvents == 3

\* consecutive pairs of path nodes recorded in one behaviour, over all
\* RX_LOG_DATA events (so a single path has at most MaxHops + 1 nodes)
MaxHops == 2

---------------------------------------------------------------------------
(* Program constants *)

\* const.py
DEFAULT_CLEANUP_DAYS == 30

\* threshold_sec = DEFAULT_CLEANUP_DAYS * 24 * 3600 in _cleanup_old_contacts
threshold_sec == DEFAULT_CLEANUP_DAYS * 24 * 3600

\* max_age = 7 * 24 * 3600 in _save_persisted_data
max_age == 7 * 24 * 3600

\* payload.get("public_key", "")[:12]
KeyLen == 12

---------------------------------------------------------------------------
(* Strings *)

\* str.lower() on one character
LowerChar(c) ==
    CASE c = "A" -> "a"
      [] c = "B" -> "b"
      [] c = "C" -> "c"
      [] c = "R" -> "r"
      [] OTHER -> c

\* str.lower()
Lower(s) == [i \in DOMAIN s |-> LowerChar(s[i])]

\* node prefixes as they arrive in path_nodes (one is upper case)
RawNodes == { <<"a">>, <<"B">>, <<"c">> }

\* the keys the link store can hold
Nodes == { Lower(n) : n \in RawNodes }

\* all sequences over S of length 0..n
RECURSIVE SeqsUpTo(_, _)
SeqsUpTo(S, n) ==
    IF n = 0 THEN { <<>> }
    ELSE LET shorter == SeqsUpTo(S, n - 1)
         IN  shorter \cup { Append(p, x) : p \in { q \in shorter : Len(q) = n - 1 }, x \in S }

Paths == SeqsUpTo(RawNodes, MaxHops + 1)

---------------------------------------------------------------------------
(* Link store *)

NoLinks == [a \in {} |-> [b \in {} |-> [last_seen |-> 0, count |-> 0]]]

HasLink(links, a, b) == a \in DOMAIN links /\ b \in DOMAIN links[a]

\* _record_direct_link resetting the count of a link it has seen before
RecordLinkNoIncrement(links, node_a, node_b, timestamp) ==
    LET conns == IF node_a \in DOMAIN links THEN links[node_a] ELSE << >>
        entry == [last_seen |-> timestamp, count |-> 1]
    IN  [a \in DOMAIN links \cup {node_a} |->
            IF a = node_a
            THEN [b \in DOMAIN conns \cup {node_b} |->
                     IF b = node_b THEN entry ELSE conns[b]]
            ELSE links[a]]

\* _record_direct_link(node_a, node_b, timestamp) on the dict `links`
_record_direct_link(links, node_a, node_b, timestamp) ==
    LET conns == IF node_a \in DOMAIN links THEN links[node_a] ELSE << >>
        entry == IF node_b \in DOMAIN conns
                 THEN [last_seen |-> timestamp, count |-> conns[node_b].count + 1]
                 ELSE [last_seen |-> timestamp, count |-> 1]
    IN  [a \in DOMAIN links \cup {node_a} |->
            IF a = node_a
            THEN [b \in DOMAIN conns \cup {node_b} |->
                     IF b = node_b THEN entry ELSE conns[b]]
            ELSE links[a]]

\* dict key order after inserting key k (unchanged when k is present)
KeyInsert(keys, k) ==
    IF \E i \in DOMAIN keys : keys[i] = k THEN keys ELSE Append(keys, k)

\* the loop of _process_rx_log_data without its second _record_direct_link call
RECURSIVE RecordPathOneWay(_, _, _, _)
RecordPathOneWay(st, path_nodes, i, now_ts) ==
    IF i > Len(path_nodes) - 1 THEN st
    ELSE LET node_a == Lower(path_nodes[i])
             node_b == Lower(path_nodes[i + 1])
             l1 == _record_direct_link(st.links, node_a, node_b, now_ts)
             k1 == KeyInsert(st.keys, node_a)
         IN  RecordPathOneWay([links |-> l1, keys |-> k1], path_nodes, i + 1, now_ts)

\* the loop of _process_rx_log_data from index i on; st = [links, keys]
RECURSIVE RecordPath(_, _, _, _)
RecordPath(st, path_nodes, i, now_ts) ==
    IF i > Len(path_nodes) - 1 THEN st
    ELSE LET node_a == Lower(path_nodes[i])
             node_b == Lower(path_nodes[i + 1])
             l1 == _record_direct_link(st.links, node_a, node_b, now_ts)
             l2 == _record_direct_link(l1, node_b, node_a, now_ts)
             k2 == KeyInsert(KeyInsert(st.keys, node_a), node_b)
         IN  RecordPath([links |-> l2, keys |-> k2], path_nodes, i + 1, now_ts)

\* _process_rx_log_data(payload) as a function of the store
_process_rx_log_data(st, path_nodes, now_ts) ==
    IF Len(path_nodes) < 2 THEN st
    ELSE RecordPath(st, path_nodes, 1, now_ts)


---------------------------------------------------------------------------
(* Greeting *)

\* the string made of n times the character c
Rep(c, n) == [i \in 1..n |-> c]

\* s[:n]
Prefix(s, n) == SubSeq(s, 1, IF Len(s) < n THEN Len(s) ELSE n)

\* public_key values of NEW_CONTACT payloads: none, two keys that share their
\* first 12 characters, a key in upper case, a key shorter than 12 characters
PubKeys ==
    { << >>,
      Rep("a", KeyLen) \o <<"1">>,
      Rep("a", KeyLen) \o <<"2">>,
      Rep("A", KeyLen) \o <<"1">>,
      <<"b", "b">> }

\* clients whose keys differ in their first 12 characters
Clients == { Rep("a", KeyLen) \o <<"1">>, <<"b", "b">> }

\* the identities these keys are known by
Idents == { Prefix(k, KeyLen) : k \in PubKeys } \ { << >> }

\* payload.get("type", 0): client, repeater, room server
NodeTypes == { 1, 2, 3 }

\* what the two hass.services.call of _send_greeting can do
GreetOutcomes == { "ok", "message_fails", "notify_fails" }

MessageCall(ok) ==
    [domain |-> "meshcore", service |-> "send_channel_message", arg |-> << >>, ok |-> ok]

NotifyCall(ok) ==
    [domain |-> "persistent_notification", service |-> "create", arg |-> << >>, ok |-> ok]

\* _send_greeting that keeps the pubkey in the set when a call raises
SendGreetingNoRollback(greeted, pubkey, outcome) ==
    LET added == greeted \cup {pubkey}
    IN  CASE outcome = "message_fails" ->
               [greeted |-> added, calls |-> << MessageCall(FALSE) >>]
          [] outcome = "notify_fails" ->
               [greeted |-> added, calls |-> << MessageCall(TRUE), NotifyCall(FALSE) >>]
          [] OTHER ->
               [greeted |-> added, calls |-> << MessageCall(TRUE), NotifyCall(TRUE) >>]

\* _send_greeting(name, pubkey): the set afterwards and the calls made
_send_greeting(greeted, pubkey, outcome) ==
    LET added == greeted \cup {pubkey}
    IN  CASE outcome = "message_fails" ->
               [greeted |-> added \ {pubkey}, calls |-> << MessageCall(FALSE) >>]
          [] outcome = "notify_fails" ->
               [greeted |-> added \ {pubkey},
                calls |-> << MessageCall(TRUE), NotifyCall(FALSE) >>]
          [] OTHER ->
               [greeted |-> added, calls |-> << MessageCall(TRUE), NotifyCall(TRUE) >>]

\* _process_new_contact that does not look the pubkey up in greeted_pubkeys
ProcessNewContactNoDedup(greeted, enabled, public_key, node_type, outcome) ==
    LET pubkey == Prefix(public_key, KeyLen)
    IN  IF ~enabled THEN [greeted |-> greeted, calls |-> << >>]
        ELSE IF node_type = 2 THEN [greeted |-> greeted, calls |-> << >>]
        ELSE IF pubkey = << >> THEN [greeted |-> greeted, calls |-> << >>]
        ELSE _send_greeting(greeted, pubkey, outcome)

\* _process_new_contact(payload): the set afterwards and the calls made
_process_new_contact(greeted, enabled, public_key, node_type, outcome) ==
    LET pubkey == Prefix(public_key, KeyLen)
    IN  IF ~enabled THEN [greeted |-> greeted, calls |-> << >>]
        ELSE IF node_type = 2 THEN [greeted |-> greeted, calls |-> << >>]
        ELSE IF pubkey = << >> \/ pubkey \in greeted
             THEN [greeted |-> greeted, calls |-> << >>]
        ELSE _send_greeting(greeted, pubkey, outcome)

NoGreetings ==
    [id \in Idents |->
        [client_events |-> 0, sent |-> 0, delivered |-> 0, failed_last |-> FALSE]]

CallFailed(cs) == \E i \in DOMAIN cs : ~cs[i].ok

MessagesIn(cs) ==
    Cardinality({ i \in DOMAIN cs : cs[i].service = "send_channel_message" })

\* the send_channel_message calls of cs that did not raise
DeliveredIn(cs) ==
    Cardinality({ i \in DOMAIN cs : cs[i].service = "send_channel_message" /\ cs[i].ok })

\* the record of what happened to identity id, after an event for it
Noted(h, id, node_type, cs) ==
    [h EXCEPT ![id] =
        [client_events |-> @.client_events + (IF node_type = 1 THEN 1 ELSE 0),
         sent          |-> @.sent + MessagesIn(cs),
         delivered     |-> @.delivered + DeliveredIn(cs),
         failed_last   |-> IF cs = << >> THEN @.failed_last ELSE CallFailed(cs)]]

---------------------------------------------------------------------------
(* Cleanup *)

K1 == Rep("a", KeyLen)

K2 == <<"b", "b">>

\* a state of hass.states: whether its entity_id is that of a contact sensor,
\* and the attributes pubkey_prefix (<< >> when missing) and last_advert
Entity(is_contact, pubkey_prefix, has_advert, last_advert) ==
    [is_contact |-> is_contact, pubkey_prefix |-> pubkey_prefix,
     has_advert |-> has_advert, last_advert |-> last_advert]

\* the entities a sweep at time t can meet: contacts without last_advert, with
\* last_advert 0, older than the threshold by a second, exactly as old as the
\* threshold; a contact without pubkey_prefix; an entity that is no contact
EntitiesAt(t) ==
    { Entity(TRUE, K1, FALSE, 0),
      Entity(TRUE, K1, TRUE, 0),
      Entity(TRUE, K1, TRUE, t - threshold_sec - 1),
      Entity(TRUE, K1, TRUE, t - threshold_sec),
      Entity(TRUE, K2, TRUE, t - threshold_sec - 1),
      Entity(TRUE, K2, TRUE, t - threshold_sec),
      Entity(TRUE, << >>, TRUE, t - threshold_sec - 1),
      Entity(FALSE, K1, TRUE, t - threshold_sec - 1) }

\* advert_old: not last_advert or (now_ts - last_advert) > threshold_sec
AdvertOld(e, now_ts) ==
    \/ ~e.has_advert
    \/ e.last_advert = 0
    \/ (now_ts - e.last_advert) > threshold_sec

\* message_old, with last_message = self.last_message_times.get(pubkey_prefix)
MessageOld(e, msgs, now_ts) ==
    \/ e.pubkey_prefix \notin DOMAIN msgs
    \/ msgs[e.pubkey_prefix] = 0
    \/ (now_ts - msgs[e.pubkey_prefix]) > threshold_sec

\* the test of _cleanup_old_contacts with "or" between the two ages
RemovesEither(e, msgs, now_ts) ==
    /\ e.is_contact
    /\ AdvertOld(e, now_ts) \/ MessageOld(e, msgs, now_ts)
    /\ e.pubkey_prefix # << >>

\* whether the loop body of _cleanup_old_contacts calls remove_contact for e
Removes(e, msgs, now_ts) ==
    /\ e.is_contact
    /\ AdvertOld(e, now_ts) /\ MessageOld(e, msgs, now_ts)
    /\ e.pubkey_prefix # << >>

RemoveCall(pubkey, ok) ==
    [domain |-> "meshcore", service |-> "execute_command", arg |-> pubkey, ok |-> ok]

\* the loop of _cleanup_old_contacts with the try around the loop and not in it:
\* the first call that raises ends the sweep
RECURSIVE SweepCallsAbort(_, _, _, _, _)
SweepCallsAbort(states, i, msgs, now_ts, fails) ==
    IF i > Len(states) THEN << >>
    ELSE IF Removes(states[i], msgs, now_ts)
         THEN IF i \in fails
              THEN << RemoveCall(states[i].pubkey_prefix, FALSE) >>
              ELSE << RemoveCall(states[i].pubkey_prefix, TRUE) >>
                   \o SweepCallsAbort(states, i + 1, msgs, now_ts, fails)
         ELSE SweepCallsAbort(states, i + 1, msgs, now_ts, fails)

\* the calls of the loop of _cleanup_old_contacts from entity i on; the calls at
\* the positions in fails raise, which the loop logs
RECURSIVE SweepCalls(_, _, _, _, _)
SweepCalls(states, i, msgs, now_ts, fails) ==
    IF i > Len(states) THEN << >>
    ELSE (IF Removes(states[i], msgs, now_ts)
          THEN << RemoveCall(states[i].pubkey_prefix, i \notin fails) >>
          ELSE << >>)
         \o SweepCalls(states, i + 1, msgs, now_ts, fails)

\* _cleanup_old_contacts: the calls it makes
_cleanup_old_contacts(states, msgs, now_ts, fails) ==
    SweepCalls(states, 1, msgs, now_ts, fails)

---------------------------------------------------------------------------
(* Node resolver *)

\* s.startswith(p)
StartsWith(s, p) == Len(p) <= Len(s) /\ SubSeq(s, 1, Len(p)) = p

\* sub in s
Contains(s, sub) ==
    \E i \in 1..(Len(s) - Len(sub) + 1) : SubSeq(s, i, i + Len(sub) - 1) = sub

\* list.sort(key=..., reverse=True) and sorted(..., reverse=True), one
\* insertion, placing x before the items whose key equals its own
InsertDescBeforeEqual(sorted, x) ==
    LET before == SelectSeq(sorted, LAMBDA y : y.key > x.key)
        after  == SelectSeq(sorted, LAMBDA y : y.key <= x.key)
    IN  before \o << x >> \o after

\* list.sort(key=..., reverse=True) and sorted(..., reverse=True), one
\* insertion: the sort is stable, so x goes behind every item placed so far
\* whose key is not below its own
InsertDesc(sorted, x) ==
    LET before == SelectSeq(sorted, LAMBDA y : y.key >= x.key)
        after  == SelectSeq(sorted, LAMBDA y : y.key < x.key)
    IN  before \o << x >> \o after

\* the items [key, item] sorted by key, largest first, from item i on
RECURSIVE SortFrom(_, _, _)
SortFrom(sorted, items, i) ==
    IF i > Len(items) THEN sorted
    ELSE SortFrom(InsertDesc(sorted, items[i]), items, i + 1)

\* sorted(seq, key=lambda x: keys of x, reverse=True), keys[i] the key of seq[i]
SortDesc(seq, keys) ==
    LET items  == [i \in DOMAIN seq |-> [key |-> keys[i], item |-> seq[i]]]
        sorted == SortFrom(<< >>, items, 1)
    IN  [i \in DOMAIN sorted |-> sorted[i].item]

\* node_type_str values
Repeater == << "R", "e", "p", "e", "a", "t", "e", "r" >>

Client == << "C", "l", "i", "e", "n", "t" >>

\* a state of hass.states.  entity tells which tests its entity_id passes:
\* "contact" (starts with binary_sensor.meshcore_ and holds _contact), "hops"
\* (holds meshcore_hops_), "other".  coords tells whether "lat and lon" is
\* true of its coordinates; last_advert and last_message_time are 0 when the
\* attribute is missing.
State(entity, name, pubkey_prefix, coords, node_type_str, last_advert, last_message_time, path_nodes) ==
    [entity |-> entity, adv_name |-> name, pubkey_prefix |-> pubkey_prefix,
     coords |-> coords, node_type_str |-> node_type_str, last_advert |-> last_advert,
     last_message_time |-> last_message_time, path_nodes |-> path_nodes]

\* a contact sensor
Contact(name, pubkey_prefix, coords, node_type_str, last_advert) ==
    State("contact", name, pubkey_prefix, coords, node_type_str, last_advert, 0, << >>)

\* the dict _get_node_info appends to matches for state
Match(state) ==
    [found |-> TRUE, name |-> state.adv_name, pubkey |-> Lower(state.pubkey_prefix),
     node_type |-> Lower(state.node_type_str), last_advert |-> state.last_advert]

\* None
NoInfo ==
    [found |-> FALSE, name |-> "", pubkey |-> << >>, node_type |-> << >>,
     last_advert |-> 0]

\* the test of _get_node_info for appending state to matches
Matches(state, pubkey_prefix) ==
    /\ state.entity = "contact"
    /\ Lower(state.pubkey_prefix) # << >>
    /\ StartsWith(Lower(state.pubkey_prefix), Lower(pubkey_prefix))
    /\ state.coords

\* _get_node_info that sorts all matches, repeaters or not
GetNodeInfoNoPreference(states, pubkey_prefix) ==
    LET found   == SelectSeq(states, LAMBDA st : Matches(st, pubkey_prefix))
        matches == [i \in DOMAIN found |-> Match(found[i])]
    IN  IF matches = << >> THEN NoInfo
        ELSE IF Len(matches) = 1 THEN matches[1]
        ELSE SortDesc(matches, [i \in DOMAIN matches |-> matches[i].last_advert])[1]

\* _get_node_info(pubkey_prefix), with states = hass.states.async_all()
_get_node_info(states, pubkey_prefix) ==
    LET found     == SelectSeq(states, LAMBDA st : Matches(st, pubkey_prefix))
        matches   == [i \in DOMAIN found |-> Match(found[i])]
        repeaters == SelectSeq(matches, LAMBDA m : Contains(m.node_type, Lower(Repeater)))
    IN  IF matches = << >> THEN NoInfo
        ELSE IF Len(matches) = 1 THEN matches[1]
        ELSE IF repeaters # << >>
        THEN SortDesc(repeaters, [i \in DOMAIN repeaters |-> repeaters[i].last_advert])[1]
        ELSE SortDesc(matches, [i \in DOMAIN matches |-> matches[i].last_advert])[1]

---------------------------------------------------------------------------
(* Projections *)

\* hass.states with no entity: .all is what async_all() returns, .inputs maps
\* the entity_id of each input_number to its state
NoStates == [all |-> << >>, inputs |-> << >>]

\* the state of an input_number: a number of hours, or a text float() rejects
Hours(h) == [numeric |-> TRUE, value |-> h]

Unavailable == [numeric |-> FALSE, value |-> 0]

\* _get_threshold_hours(entity_id, default)
_get_threshold_hours(inputs, entity_id, default) ==
    IF entity_id \in DOMAIN inputs /\ inputs[entity_id].numeric
    THEN inputs[entity_id].value
    ELSE default

\* the elements of a finite set in some order: the order in which a dict
\* whose key order the model does not keep is iterated
RECURSIVE SeqOfSet(_)
SeqOfSet(S) ==
    IF S = {} THEN << >>
    ELSE LET x == CHOOSE y \in S : TRUE IN << x >> \o SeqOfSet(S \ {x})

\* the count of lines 401-409 that leaves a node it has met at 1
CountUseNoAccumulate(node_data, info) ==
    IF \E i \in DOMAIN node_data : node_data[i].key = info.pubkey
    THEN node_data
    ELSE Append(node_data, [key |-> info.pubkey, name |-> info.name, use_count |-> 1])

\* node_data[key]["use_count"] += 1, after adding the entry when it is new;
\* node_data is the dict as the sequence of its items
CountUse(node_data, info) ==
    IF \E i \in DOMAIN node_data : node_data[i].key = info.pubkey
    THEN [i \in DOMAIN node_data |->
             IF node_data[i].key = info.pubkey
             THEN [node_data[i] EXCEPT !.use_count = @ + 1]
             ELSE node_data[i]]
    ELSE Append(node_data, [key |-> info.pubkey, name |-> info.name, use_count |-> 1])

\* _export_heatmap_data: "for node_prefix in path_nodes" from index j on
RECURSIVE HeatPath(_, _, _, _)
HeatPath(node_data, all, path_nodes, j) ==
    IF j > Len(path_nodes) THEN node_data
    ELSE LET node_info == _get_node_info(all, path_nodes[j])
         IN  HeatPath(IF node_info.found THEN CountUse(node_data, node_info)
                      ELSE node_data,
                      all, path_nodes, j + 1)

\* _export_heatmap_data: "for state in states" from index i on; limit_sec is
\* the threshold_sec of the export
RECURSIVE HeatStates(_, _, _, _, _)
HeatStates(node_data, all, i, limit_sec, now_ts) ==
    IF i > Len(all) THEN node_data
    ELSE LET state == all[i]
             skip  == \/ state.entity # "hops"
                      \/ state.last_message_time = 0
                      \/ (now_ts - state.last_message_time) > limit_sec
         IN  HeatStates(IF skip THEN node_data
                        ELSE HeatPath(node_data, all, state.path_nodes, 1),
                        all, i + 1, limit_sec, now_ts)

\* what _export_heatmap_data dumps
HeatmapData(states, now_ts) ==
    LET threshold_hours ==
            _get_threshold_hours(states.inputs,
                                 "input_number.meshcore_heatmap_threshold_hours", 168)
        node_data == HeatStates(<< >>, states.all, 1, threshold_hours * 3600, now_ts)
        values    == [i \in DOMAIN node_data |->
                         [name |-> node_data[i].name,
                          use_count |-> node_data[i].use_count]]
    IN  [threshold_hours |-> threshold_hours,
         nodes |-> SortDesc(values, [i \in DOMAIN values |-> values[i].use_count]),
         links |-> << >>]

\* what _export_nodemap_data dumps (age in seconds)
NodemapData(states, now_ts) ==
    LET threshold_hours ==
            _get_threshold_hours(states.inputs,
                                 "input_number.meshcore_advert_threshold_hours", 12)
        shown == SelectSeq(states.all, LAMBDA st :
                    /\ st.entity = "contact"
                    /\ st.last_advert # 0
                    /\ (now_ts - st.last_advert) <= threshold_hours * 3600
                    /\ st.coords)
    IN  [threshold_hours |-> threshold_hours,
         nodes |-> [i \in DOMAIN shown |->
                       [name |-> shown[i].adv_name,
                        node_type |-> Lower(shown[i].node_type_str),
                        age |-> now_ts - shown[i].last_advert]],
         links |-> << >>]

\* _export_directlinks_data, lines 495-503: node_a is tracked and counted
TrackNode(node_data, node_a_info) ==
    IF \E i \in DOMAIN node_data : node_data[i].key = node_a_info.pubkey
    THEN [i \in DOMAIN node_data |->
             IF node_data[i].key = node_a_info.pubkey
             THEN [node_data[i] EXCEPT !.link_count = @ + 1]
             ELSE node_data[i]]
    ELSE Append(node_data, [key |-> node_a_info.pubkey, name |-> node_a_info.name,
                            node_type |-> node_a_info.node_type, link_count |-> 1])

\* max(x, y)
Max(x, y) == IF x >= y THEN x ELSE y

\* the merge of lines 506-525 that appends an entry for every half-edge
MergeLinkNoDedup(link_data, node_a_info, node_b_info, count) ==
    Append(link_data,
           [from_pubkey |-> node_a_info.pubkey, from_name |-> node_a_info.name,
            to_pubkey |-> node_b_info.pubkey, to_name |-> node_b_info.name,
            count |-> count])

\* _export_directlinks_data, lines 506-525: the first entry with the same
\* sorted pair of pubkeys takes the larger count; without one, a new entry
MergeLink(link_data, node_a_info, node_b_info, count) ==
    LET link_key == { node_a_info.pubkey, node_b_info.pubkey }
        same     == { i \in DOMAIN link_data :
                        { link_data[i].from_pubkey, link_data[i].to_pubkey } = link_key }
    IN  IF same # {}
        THEN LET first == CHOOSE i \in same : \A k \in same : i <= k
             IN  [link_data EXCEPT ![first].count = Max(@, count)]
        ELSE Append(link_data,
                    [from_pubkey |-> node_a_info.pubkey, from_name |-> node_a_info.name,
                     to_pubkey |-> node_b_info.pubkey, to_name |-> node_b_info.name,
                     count |-> count])

\* _export_directlinks_data: "for node_b_prefix, link_info in
\* connections.items()" from index j of the keys bs on; acc = [node_data,
\* link_data]
RECURSIVE LinksInner(_, _, _, _, _, _, _, _)
LinksInner(acc, all, node_a_info, connections, bs, j, limit_sec, now_ts) ==
    IF j > Len(bs) THEN acc
    ELSE LET link_info   == connections[bs[j]]
             node_b_info == _get_node_info(all, bs[j])
             skip        == \/ (now_ts - link_info.last_seen) > limit_sec
                            \/ ~node_b_info.found
             next        == IF skip THEN acc
                            ELSE [node_data |-> TrackNode(acc.node_data, node_a_info),
                                  link_data |-> MergeLink(acc.link_data, node_a_info,
                                                          node_b_info, link_info.count)]
         IN  LinksInner(next, all, node_a_info, connections, bs, j + 1,
                        limit_sec, now_ts)

\* _export_directlinks_data: "for node_a_prefix, connections in
\* self.direct_links.items()" from index i of the keys on
RECURSIVE LinksOuter(_, _, _, _, _, _, _)
LinksOuter(acc, all, links, keys, i, limit_sec, now_ts) ==
    IF i > Len(keys) THEN acc
    ELSE LET node_a_info == _get_node_info(all, keys[i])
             next == IF ~node_a_info.found THEN acc
                     ELSE LinksInner(acc, all, node_a_info, links[keys[i]],
                                     SeqOfSet(DOMAIN links[keys[i]]), 1,
                                     limit_sec, now_ts)
         IN  LinksOuter(next, all, links, keys, i + 1, limit_sec, now_ts)

\* what _export_directlinks_data dumps
DirectLinksData(links, keys, states, now_ts) ==
    LET threshold_hours ==
            _get_threshold_hours(states.inputs,
                                 "input_number.meshcore_heatmap_threshold_hours", 168)
        acc    == LinksOuter([node_data |-> << >>, link_data |-> << >>], states.all,
                             links, keys, 1, threshold_hours * 3600, now_ts)
        values == [i \in DOMAIN acc.node_data |->
                      [name |-> acc.node_data[i].name,
                       node_type |-> acc.node_data[i].node_type,
                       link_count |-> acc.node_data[i].link_count]]
    IN  [threshold_hours |-> threshold_hours,
         nodes |-> SortDesc(values, [i \in DOMAIN values |-> values[i].link_count]),
         links |-> acc.link_data]

---------------------------------------------------------------------------
(* Persistence *)

\* the ways open(path, 'w') + json.dump can end: written, open() raised (file
\* untouched), json.dump raised after open() truncated the file
WriteOutcomes == { "ok", "open_err", "dump_err" }

NoFile == [state |-> "absent", data |-> << >>, saved_at |-> 0]

\* with open(path, 'w') as f: json.dump({key: data, "saved_at": stamp}, f)
WriteFile(old, data, stamp, outcome) ==
    CASE outcome = "ok"       -> [state |-> "ok", data |-> data, saved_at |-> stamp]
      [] outcome = "open_err" -> old
      [] OTHER                -> [state |-> "malformed", data |-> << >>, saved_at |-> 0]

\* a dict whose key order the model does not keep, as the members of the JSON
\* object json.dump writes for it
MembersOf(dict) == { [key |-> k, value |-> dict[k]] : k \in DOMAIN dict }

\* the dict json.load builds from the members of a JSON object
ObjectOf(members) ==
    [k \in { m.key : m \in members } |-> (CHOOSE m \in members : m.key = k).value]

\* self.direct_links as json.dump writes it: the members of the outer object in
\* key order, each value the members of the inner object
JsonLinks(keys, links) ==
    [i \in DOMAIN keys |-> [key |-> keys[i], value |-> MembersOf(links[keys[i]])]]

\* the direct_links dict json.load builds from the members written
LinksOf(members) ==
    [a \in { members[i].key : i \in DOMAIN members } |->
        ObjectOf((CHOOSE m \in { members[i] : i \in DOMAIN members } : m.key = a).value)]

\* the key order of that dict
KeysOf(members) == [i \in DOMAIN members |-> members[i].key]

\* cleaned_connections with < in place of <=
CleanedConnectionsStrict(connections, now_ts) ==
    [b \in { x \in DOMAIN connections : (now_ts - connections[x].last_seen) < max_age }
        |-> connections[b]]

\* cleaned_connections of _save_persisted_data for one node_a
CleanedConnections(connections, now_ts) ==
    [b \in { x \in DOMAIN connections : (now_ts - connections[x].last_seen) <= max_age }
        |-> connections[b]]

\* cleaned_links of _save_persisted_data
CleanedLinks(links, now_ts) ==
    [a \in { x \in DOMAIN links : DOMAIN CleanedConnections(links[x], now_ts) # {} }
        |-> CleanedConnections(links[a], now_ts)]

\* key order of cleaned_links: the keys kept, in the order they were iterated
CleanedKeys(keys, links, now_ts) ==
    SelectSeq(keys, LAMBDA k : k \in DOMAIN CleanedLinks(links, now_ts))

\* cleaned_messages of _save_persisted_data
CleanedMessages(msgs, now_ts) ==
    [k \in { x \in DOMAIN msgs : (now_ts - msgs[x]) <= max_age } |-> msgs[k]]

\* list(self.greeted_pubkeys): the set in some iteration order
RECURSIVE ListsOf(_)
ListsOf(S) ==
    IF S = {} THEN { << >> }
    ELSE UNION { { <<x>> \o l : l \in ListsOf(S \ {x}) } : x \in S }

\* set(data.get("greeted", []))
SetOf(l) == { l[i] : i \in DOMAIN l }

\* _save_persisted_data with one try block around all of it: the first write
\* that fails ends it
SaveStopsAtFailure(w1, w2, w3, greeted_list) ==
    LET now_ts == now
    IN  /\ direct_links' = CleanedLinks(direct_links, now_ts)
        /\ link_keys' = CleanedKeys(link_keys, direct_links, now_ts)
        /\ file_links' = WriteFile(file_links, JsonLinks(link_keys', direct_links'),
                                   now_ts, w1)
        /\ last_message_times' = IF w1 = "ok"
                                 THEN CleanedMessages(last_message_times, now_ts)
                                 ELSE last_message_times
        /\ file_messages' = IF w1 = "ok"
                            THEN WriteFile(file_messages, MembersOf(last_message_times'),
                                           now_ts, w2)
                            ELSE file_messages
        /\ greeted_list \in ListsOf(greeted_pubkeys)
        /\ file_greeted' = IF w1 = "ok" /\ w2 = "ok"
                           THEN WriteFile(file_greeted, greeted_list,
                                          Cardinality(greeted_pubkeys), w3)
                           ELSE file_greeted

\* _save_persisted_data, run with nothing else touching the coordinator
_save_persisted_data(w1, w2, w3, greeted_list) ==
    LET now_ts == now
    IN  /\ direct_links' = CleanedLinks(direct_links, now_ts)
        /\ link_keys' = CleanedKeys(link_keys, direct_links, now_ts)
        /\ file_links' = WriteFile(file_links, JsonLinks(link_keys', direct_links'),
                                   now_ts, w1)
        /\ last_message_times' = CleanedMessages(last_message_times, now_ts)
        /\ file_messages' = WriteFile(file_messages, MembersOf(last_message_times'),
                                      now_ts, w2)
        /\ greeted_list \in ListsOf(greeted_pubkeys)
        /\ file_greeted' = WriteFile(file_greeted, greeted_list,
                                     Cardinality(greeted_pubkeys), w3)

\* one block of _load_persisted_data that leaves the attribute as it is
LoadedValueKept(file, decoded, current) == current

\* one block of _load_persisted_data: "if os.path.exists(path): try: data =
\* json.load(f); self.x = data.get(key, default) except Exception: warning"
LoadedValue(file, decoded, current) ==
    IF file.state = "ok" THEN decoded ELSE current

\* _load_persisted_data with one try block around all of it: the first file
\* that cannot be read or decoded ends it
LoadStopsAtFailure ==
    LET links_read == file_links.state \in { "ok", "absent" }
        msgs_read  == links_read /\ file_messages.state \in { "ok", "absent" }
    IN  /\ direct_links' = LoadedValue(file_links, LinksOf(file_links.data), direct_links)
        /\ link_keys' = LoadedValue(file_links, KeysOf(file_links.data), link_keys)
        /\ last_message_times' =
              IF links_read
              THEN LoadedValue(file_messages, ObjectOf(file_messages.data),
                               last_message_times)
              ELSE last_message_times
        /\ greeted_pubkeys' =
              IF msgs_read
              THEN LoadedValue(file_greeted, SetOf(file_greeted.data), greeted_pubkeys)
              ELSE greeted_pubkeys

\* _load_persisted_data
_load_persisted_data ==
    /\ direct_links' = LoadedValue(file_links, LinksOf(file_links.data), direct_links)
    /\ link_keys' = LoadedValue(file_links, KeysOf(file_links.data), link_keys)
    /\ last_message_times' = LoadedValue(file_messages, ObjectOf(file_messages.data),
                                         last_message_times)
    /\ greeted_pubkeys' = LoadedValue(file_greeted, SetOf(file_greeted.data),
                                      greeted_pubkeys)

---------------------------------------------------------------------------
(* Actions *)

NoEvent == [kind |-> "", path |-> << >>, pubkey |-> << >>, type |-> 0, ts |-> 0]

\* no _get_node_info lookup yet
NoLookup == [prefix |-> << >>, info |-> NoInfo]

\* a step that exports nothing and writes no file
NoExport ==
    /\ hass_states' = NoStates
    /\ opened' = << >>
    /\ UNCHANGED <<lookup, file_heatmap, file_nodemap, file_directlinks>>

\* one open(path, 'w') of a step and how the write ended
Opened(path, outcome) == [path |-> path, outcome |-> outcome]

\* the three open() calls of _save_persisted_data
SaveOpened(w1, w2, w3) ==
    << Opened("meshcore_directlinks_persist.json", w1),
       Opened("meshcore_last_messages.json", w2),
       Opened("meshcore_greeted.json", w3) >>

\* _export_heatmap_data, _export_nodemap_data and _export_directlinks_data with
\* hass.states as given: what the three writes leave
ExportProjections(states, wh, wn, wd) ==
    /\ hass_states' = states
    /\ file_heatmap' = WriteFile(file_heatmap, HeatmapData(states, now), now, wh)
    /\ file_nodemap' = WriteFile(file_nodemap, NodemapData(states, now), now, wn)
    /\ file_directlinks' =
          WriteFile(file_directlinks,
                    DirectLinksData(direct_links, link_keys, states, now), now, wd)

\* the three open() calls of the projections
ExportOpened(wh, wn, wd) ==
    << Opened("meshcore_heatmap_data.json", wh),
       Opened("meshcore_nodemap_data.json", wn),
       Opened("meshcore_directlinks_data.json", wd) >>

\* what async_initialize can append to self._unsub_listeners
Handles == { "listener", "export_timer", "cleanup_timer" }

\* a config entry that is set up: async_setup_entry has returned True
Running ==
    [pc |-> "running",
     unsub_listeners |-> << "listener", "export_timer", "cleanup_timer" >>,
     active |-> Handles, i |-> 0, ran |-> {}, setups |-> 1, stored |-> TRUE]

\* no async_shutdown has run yet
NotShutDown ==
    [taken |-> FALSE, now |-> 0, links |-> NoLinks, msgs |-> << >>, greeted |-> {},
     last_event |-> NoEvent]

\* the entry is gone: async_setup_entry raised, async_unload_entry raised, or
\* async_unload_entry returned after async_shutdown
TornDown == { "setup_failed", "shutdown_failed", "down" }

\* stretches of async_initialize and async_shutdown without an await: the
\* event loop runs no callback in between
Synchronous == { "loaded", "listening", "export_scheduled", "unsubbing" }

\* hass runs the callback registered under handle h: the handle has not been
\* cancelled.  life.ran keeps the callbacks that ran on an entry torn down.
Callback(h) ==
    /\ h \in life.active
    /\ life.pc \notin Synchronous
    /\ life' = [life EXCEPT !.ran = IF life.pc \in TornDown THEN @ \cup {h} ELSE @]

\* time passes
TickSteps == { 1, max_age }

\* number of steps the clock took to reach t
TicksTaken(t) == ((t - StartTime) \div max_age) + ((t - StartTime) % max_age)

Tick ==
    /\ TicksTaken(now) < MaxTicks
    /\ \E d \in TickSteps : now' = now + d
    /\ last_event' = NoEvent
    /\ calls' = << >>
    /\ UNCHANGED <<direct_links, link_keys, last_message_times, greeted_pubkeys,
                   greet_enabled, file_links, file_messages, file_greeted,
                   n_events, n_hops, greet_hist, outbound_failed, saver>>
    /\ swept' = << >>
    /\ UNCHANGED <<cleanup_enabled, life, at_shutdown>>
    /\ NoExport

\* the worker thread when no save is running
IdleSaver == [pc |-> "idle", now_ts |-> 0, pos |-> 0, size |-> 0,
              cleaned |-> << >>, during |-> {}, result |-> "none"]

\* the half-edges a path of at least 2 nodes records
HalfEdges(path_nodes) ==
    UNION { { <<Lower(path_nodes[i]), Lower(path_nodes[i + 1])>>,
              <<Lower(path_nodes[i + 1]), Lower(path_nodes[i])>> } :
            i \in 1..(Len(path_nodes) - 1) }

\* _handle_meshcore_event with event_type "EventType.RX_LOG_DATA" and
\* path_nodes one of P
RxLogData(P) ==
    /\ Callback("listener")
    /\ \E path_nodes \in P :
          LET hops == IF Len(path_nodes) < 2 THEN 0 ELSE Len(path_nodes) - 1
              st == _process_rx_log_data([links |-> direct_links, keys |-> link_keys],
                                         path_nodes, now)
          IN  /\ n_hops + hops <= MaxHops
              /\ n_hops' = n_hops + hops
              /\ direct_links' = st.links
              /\ link_keys' = st.keys
              /\ last_event' = [kind |-> "EventType.RX_LOG_DATA", path |-> path_nodes,
                                pubkey |-> << >>, type |-> 0, ts |-> now]
              /\ saver' = IF saver.pc = "idle" THEN saver
                          ELSE [saver EXCEPT !.during = @ \cup HalfEdges(path_nodes)]
    /\ calls' = << >>
    /\ UNCHANGED <<now, last_message_times, greeted_pubkeys, greet_enabled,
                   file_links, file_messages, file_greeted, n_events,
                   greet_hist, outbound_failed>>
    /\ swept' = << >>
    /\ UNCHANGED <<cleanup_enabled, at_shutdown>>
    /\ NoExport

\* _export_data on the worker, with no event handled meanwhile: the three
\* projections read hass.states (one of States) and the store and are written,
\* then _save_persisted_data prunes the store and writes the snapshots
ExportData(W, States) ==
    /\ Callback("export_timer")
    /\ \E states \in States, wh \in W, wn \in W, wd \in W, w1 \in W, w2 \in W, w3 \in W :
          /\ ExportProjections(states, wh, wn, wd)
          /\ \E greeted_list \in ListsOf(greeted_pubkeys) :
                _save_persisted_data(w1, w2, w3, greeted_list)
          /\ opened' = ExportOpened(wh, wn, wd) \o SaveOpened(w1, w2, w3)
    /\ last_event' = NoEvent
    /\ calls' = << >>
    /\ UNCHANGED <<now, greeted_pubkeys, greet_enabled, n_events, n_hops,
                   greet_hist, outbound_failed, saver>>
    /\ swept' = << >>
    /\ UNCHANGED <<cleanup_enabled, at_shutdown, lookup>>

InitLinks ==
    /\ now = StartTime
    /\ direct_links = NoLinks
    /\ link_keys = << >>
    /\ last_message_times = << >>
    /\ greeted_pubkeys = {}
    /\ greet_enabled = TRUE
    /\ file_links = NoFile
    /\ file_messages = NoFile
    /\ file_greeted = NoFile
    /\ n_events = 0
    /\ n_hops = 0
    /\ last_event = NoEvent
    /\ calls = << >>
    /\ greet_hist = NoGreetings
    /\ outbound_failed = FALSE
    /\ saver = IdleSaver
    /\ swept = << >>
    /\ cleanup_enabled = TRUE
    /\ life = Running
    /\ at_shutdown = NotShutDown
    /\ hass_states = NoStates
    /\ lookup = NoLookup
    /\ file_heatmap = NoFile
    /\ file_nodemap = NoFile
    /\ file_directlinks = NoFile
    /\ opened = << >>

\* Ingestion of path traces and the periodic export, one at a time, with the
\* snapshot directory not writable (every open() raises): what the writes leave
\* on disk is the subject of SpecPersist.
NextLinks == RxLogData(Paths) \/ ExportData({"open_err"}, {NoStates}) \/ Tick

SpecLinks == InitLinks /\ [][NextLinks]_vars

\* _handle_meshcore_event with event_type "EventType.NEW_CONTACT", public_key
\* one of Keys, type one of Types, and the outbound calls ending as one of
\* Outcomes
NewContact(Keys, Types, Outcomes) ==
    /\ Callback("listener")
    /\ n_events < MaxEvents
    /\ \E public_key \in Keys, node_type \in Types, outcome \in Outcomes :
          LET r  == _process_new_contact(greeted_pubkeys, greet_enabled,
                                         public_key, node_type, outcome)
              id == Prefix(public_key, KeyLen)
          IN  /\ greeted_pubkeys' = r.greeted
              /\ calls' = r.calls
              /\ outbound_failed' = (outbound_failed \/ CallFailed(r.calls))
              /\ greet_hist' = IF id \in Idents
                               THEN Noted(greet_hist, id, node_type, r.calls)
                               ELSE greet_hist
              /\ last_event' = [kind |-> "EventType.NEW_CONTACT", path |-> << >>,
                                pubkey |-> public_key, type |-> node_type, ts |-> now]
    /\ n_events' = n_events + 1
    /\ UNCHANGED <<now, direct_links, link_keys, last_message_times, greet_enabled,
                   file_links, file_messages, file_greeted, n_hops, saver>>
    /\ swept' = << >>
    /\ UNCHANGED <<cleanup_enabled, at_shutdown>>
    /\ NoExport

\* _handle_meshcore_event with "else" in place of the test for RX_LOG_DATA
HandleEventElse(st, event_type, path_nodes, public_key, node_type, outcome, now_ts) ==
    IF event_type = "EventType.NEW_CONTACT"
    THEN LET r == _process_new_contact(st.greeted, st.enabled, public_key,
                                       node_type, outcome)
         IN  [links |-> st.links, keys |-> st.keys,
              greeted |-> r.greeted, calls |-> r.calls]
    ELSE LET r == _process_rx_log_data([links |-> st.links, keys |-> st.keys],
                                       path_nodes, now_ts)
         IN  [links |-> r.links, keys |-> r.keys,
              greeted |-> st.greeted, calls |-> << >>]

\* _handle_meshcore_event(event) on st = [links, keys, greeted, enabled], for
\* an event with the given event_type whose payload holds path_nodes,
\* public_key and type: the caches afterwards and the calls made
_handle_meshcore_event(st, event_type, path_nodes, public_key, node_type, outcome, now_ts) ==
    IF event_type = "EventType.RX_LOG_DATA"
    THEN LET r == _process_rx_log_data([links |-> st.links, keys |-> st.keys],
                                       path_nodes, now_ts)
         IN  [links |-> r.links, keys |-> r.keys,
              greeted |-> st.greeted, calls |-> << >>]
    ELSE IF event_type = "EventType.NEW_CONTACT"
    THEN LET r == _process_new_contact(st.greeted, st.enabled, public_key,
                                       node_type, outcome)
         IN  [links |-> st.links, keys |-> st.keys,
              greeted |-> r.greeted, calls |-> r.calls]
    ELSE [links |-> st.links, keys |-> st.keys,
          greeted |-> st.greeted, calls |-> << >>]

\* a meshcore_raw_event of any kind in Kinds, its payload holding path_nodes of
\* P, public_key of Keys and type of Types
MeshcoreEvent(Kinds, P, Keys, Types, Outcomes) ==
    /\ Callback("listener")
    /\ n_events < MaxEvents
    /\ \E event_type \in Kinds, path_nodes \in P, public_key \in Keys,
          node_type \in Types, outcome \in Outcomes :
          LET r == _handle_meshcore_event(
                       [links |-> direct_links, keys |-> link_keys,
                        greeted |-> greeted_pubkeys, enabled |-> greet_enabled],
                       event_type, path_nodes, public_key, node_type, outcome, now)
              id == Prefix(public_key, KeyLen)
          IN  /\ direct_links' = r.links
              /\ link_keys' = r.keys
              /\ greeted_pubkeys' = r.greeted
              /\ calls' = r.calls
              /\ outbound_failed' = (outbound_failed \/ CallFailed(r.calls))
              /\ greet_hist' = IF id \in Idents /\ event_type = "EventType.NEW_CONTACT"
                               THEN Noted(greet_hist, id, node_type, r.calls)
                               ELSE greet_hist
              /\ last_event' = [kind |-> event_type, path |-> path_nodes,
                                pubkey |-> public_key, type |-> node_type, ts |-> now]
    /\ n_events' = n_events + 1
    /\ swept' = << >>
    /\ UNCHANGED <<now, last_message_times, greet_enabled, file_links, file_messages,
                   file_greeted, n_hops, saver, cleanup_enabled, at_shutdown>>
    /\ NoExport

\* event_type values: the two the handler knows and one it does not
EventKinds ==
    { "EventType.RX_LOG_DATA", "EventType.NEW_CONTACT", "EventType.ADVERTISEMENT" }

\* path_nodes of 0, 1 and 2 nodes
ShortPaths == { << >>, << <<"a">> >>, << <<"a">>, <<"B">> >> }

\* Events of every kind, one after the other, each payload with path_nodes,
\* public_key and type, on a coordinator that has greeted nobody yet
NextEvents == MeshcoreEvent(EventKinds, ShortPaths, Clients, {1}, {"ok", "message_fails"})

InitGreet ==
    /\ now = StartTime
    /\ direct_links = NoLinks
    /\ link_keys = << >>
    /\ last_message_times = << >>
    /\ greeted_pubkeys = {}
    /\ greet_enabled \in BOOLEAN
    /\ file_links = NoFile
    /\ file_messages = NoFile
    /\ file_greeted = NoFile
    /\ n_events = 0
    /\ n_hops = 0
    /\ last_event = NoEvent
    /\ calls = << >>
    /\ greet_hist = NoGreetings
    /\ outbound_failed = FALSE
    /\ saver = IdleSaver
    /\ swept = << >>
    /\ cleanup_enabled = TRUE
    /\ life = Running
    /\ at_shutdown = NotShutDown
    /\ hass_states = NoStates
    /\ lookup = NoLookup
    /\ file_heatmap = NoFile
    /\ file_nodemap = NoFile
    /\ file_directlinks = NoFile
    /\ opened = << >>

\* NEW_CONTACT events, one after the other, on a coordinator that has greeted
\* nobody yet
NextGreet == NewContact(PubKeys, NodeTypes, GreetOutcomes)

SpecGreet == InitGreet /\ [][NextGreet]_vars

SpecEvents == InitGreet /\ [][NextEvents]_vars

---------------------------------------------------------------------------
(* The save on the worker thread, while the event loop keeps handling events *)

\* _async_export_data hands _export_data to the executor: the three
\* projections are written, then _save_persisted_data starts, reads the clock
\* and creates the iterator of self.direct_links.items()
SaveBegin(W, States) ==
    /\ Callback("export_timer")
    /\ saver.pc = "idle"
    /\ \E states \in States, wh \in W, wn \in W, wd \in W :
          /\ ExportProjections(states, wh, wn, wd)
          /\ opened' = ExportOpened(wh, wn, wd)
    /\ saver' = [pc |-> "iter", now_ts |-> now, pos |-> 1, size |-> Len(link_keys),
                 cleaned |-> << >>, during |-> {}, result |-> "none"]
    /\ last_event' = NoEvent
    /\ calls' = << >>
    /\ UNCHANGED <<now, direct_links, link_keys, last_message_times, greeted_pubkeys,
                   greet_enabled, file_links, file_messages, file_greeted,
                   n_events, n_hops, greet_hist, outbound_failed>>
    /\ swept' = << >>
    /\ UNCHANGED <<cleanup_enabled, at_shutdown, lookup>>

\* one turn of "for node_a, connections in self.direct_links.items()": next()
\* raises RuntimeError when the dict changed size since the iterator was made
\* (nothing catches it), ends the loop after the last key, and else runs the
\* body for the next key.  cleaned_connections keeps the link_data objects of
\* the old dict, so cleaned holds keys only.  The inner loop is taken as one step.
SaveNext ==
    /\ saver.pc = "iter"
    /\ IF Len(link_keys) # saver.size
       THEN saver' = [saver EXCEPT !.pc = "idle", !.result = "raised"]
       ELSE IF saver.pos > saver.size
       THEN saver' = [saver EXCEPT !.pc = "assign"]
       ELSE LET node_a == link_keys[saver.pos]
                kept == DOMAIN CleanedConnections(direct_links[node_a], saver.now_ts)
            IN  saver' = [saver EXCEPT
                            !.pos = @ + 1,
                            !.cleaned = IF kept = {} THEN @
                                        ELSE [x \in DOMAIN @ \cup {node_a} |->
                                                 IF x = node_a THEN kept ELSE @[x]]]
    /\ last_event' = NoEvent
    /\ calls' = << >>
    /\ UNCHANGED <<now, direct_links, link_keys, last_message_times, greeted_pubkeys,
                   greet_enabled, file_links, file_messages, file_greeted,
                   n_events, n_hops, greet_hist, outbound_failed>>
    /\ swept' = << >>
    /\ UNCHANGED <<cleanup_enabled, life, at_shutdown>>
    /\ NoExport

\* self.direct_links = cleaned_links
SaveAssign ==
    /\ saver.pc = "assign"
    /\ direct_links' = [a \in DOMAIN saver.cleaned |->
                           [b \in saver.cleaned[a] |-> direct_links[a][b]]]
    /\ link_keys' = SelectSeq(link_keys, LAMBDA k : k \in DOMAIN saver.cleaned)
    /\ saver' = [saver EXCEPT !.pc = "write"]
    /\ last_event' = NoEvent
    /\ calls' = << >>
    /\ UNCHANGED <<now, last_message_times, greeted_pubkeys, greet_enabled,
                   file_links, file_messages, file_greeted,
                   n_events, n_hops, greet_hist, outbound_failed>>
    /\ swept' = << >>
    /\ UNCHANGED <<cleanup_enabled, life, at_shutdown>>
    /\ NoExport

\* the rest of _save_persisted_data: the three writes and the pruning of
\* last_message_times
SaveFinish(W) ==
    /\ saver.pc = "write"
    /\ \E w1 \in W, w2 \in W, w3 \in W :
          \E greeted_list \in ListsOf(greeted_pubkeys) :
             /\ file_links' = WriteFile(file_links, JsonLinks(link_keys, direct_links),
                                        saver.now_ts, w1)
             /\ last_message_times' = CleanedMessages(last_message_times, saver.now_ts)
             /\ file_messages' = WriteFile(file_messages, MembersOf(last_message_times'),
                                           saver.now_ts, w2)
             /\ file_greeted' = WriteFile(file_greeted, greeted_list,
                                          Cardinality(greeted_pubkeys), w3)
             /\ opened' = SaveOpened(w1, w2, w3)
    /\ saver' = [saver EXCEPT !.pc = "idle", !.result = "saved"]
    /\ last_event' = NoEvent
    /\ calls' = << >>
    /\ UNCHANGED <<now, direct_links, link_keys, greeted_pubkeys, greet_enabled,
                   n_events, n_hops, greet_hist, outbound_failed>>
    /\ swept' = << >>
    /\ hass_states' = NoStates
    /\ UNCHANGED <<cleanup_enabled, life, at_shutdown, lookup,
                   file_heatmap, file_nodemap, file_directlinks>>

\* the store after the path a, b, c was recorded: what a snapshot written by an
\* earlier run holds
LoadedLinks ==
    _process_rx_log_data([links |-> NoLinks, keys |-> << >>],
                         << <<"a">>, <<"B">>, <<"c">> >>, StartTime)

InitConc ==
    /\ now = StartTime
    /\ direct_links = LoadedLinks.links
    /\ link_keys = LoadedLinks.keys
    /\ last_message_times = << >>
    /\ greeted_pubkeys = {}
    /\ greet_enabled = TRUE
    /\ file_links = NoFile
    /\ file_messages = NoFile
    /\ file_greeted = NoFile
    /\ n_events = 0
    /\ n_hops = 0
    /\ last_event = NoEvent
    /\ calls = << >>
    /\ greet_hist = NoGreetings
    /\ outbound_failed = FALSE
    /\ saver = IdleSaver
    /\ swept = << >>
    /\ cleanup_enabled = TRUE
    /\ life = Running
    /\ at_shutdown = NotShutDown
    /\ hass_states = NoStates
    /\ lookup = NoLookup
    /\ file_heatmap = NoFile
    /\ file_nodemap = NoFile
    /\ file_directlinks = NoFile
    /\ opened = << >>

\* The event loop (RxLogData) and the worker thread (Save...) take turns in any
\* order: async_add_executor_job runs the save on another thread and nothing
\* in the coordinator locks the store.
NextConc ==
    \/ RxLogData(Paths) \/ Tick
    \/ SaveBegin({"ok"}, {NoStates}) \/ SaveNext \/ SaveAssign \/ SaveFinish({"ok"})

SpecConc == InitConc /\ [][NextConc]_vars

---------------------------------------------------------------------------
(* The daily sweep *)

\* _async_cleanup_old_contacts: the sweep over the entities hass.states holds
\* when it runs, one of States.  The timer fires every 24 hours, the export every 5 minutes:
\* a sweep never follows a sweep directly.
Cleanup(States) ==
    /\ Callback("cleanup_timer")
    /\ swept = << >>
    /\ \E states \in States :
          \E fails \in SUBSET { i \in DOMAIN states :
                                  Removes(states[i], last_message_times, now) } :
             /\ swept' = states
             /\ calls' = _cleanup_old_contacts(states, last_message_times, now, fails)
             /\ outbound_failed' = (outbound_failed \/ fails # {})
    /\ last_event' = NoEvent
    /\ UNCHANGED <<now, direct_links, link_keys, last_message_times, greeted_pubkeys,
                   greet_enabled, file_links, file_messages, file_greeted,
                   n_events, n_hops, greet_hist, saver>>
    /\ UNCHANGED <<cleanup_enabled, at_shutdown>>
    /\ NoExport

\* last-message times a snapshot can hold when it is loaded
MessageTimes ==
    { 0, StartTime - threshold_sec - 1, StartTime - threshold_sec, StartTime }

\* the maps self.last_message_times can be after the load
LoadedMessages ==
    UNION { [D -> MessageTimes] : D \in SUBSET {K1, K2} }

InitCleanup ==
    /\ now = StartTime
    /\ direct_links = NoLinks
    /\ link_keys = << >>
    /\ last_message_times \in LoadedMessages
    /\ greeted_pubkeys = {}
    /\ greet_enabled = TRUE
    /\ file_links = NoFile
    /\ file_messages = NoFile
    /\ file_greeted = NoFile
    /\ n_events = 0
    /\ n_hops = 0
    /\ last_event = NoEvent
    /\ calls = << >>
    /\ greet_hist = NoGreetings
    /\ outbound_failed = FALSE
    /\ saver = IdleSaver
    /\ swept = << >>
    /\ cleanup_enabled = TRUE
    /\ life = Running
    /\ at_shutdown = NotShutDown
    /\ hass_states = NoStates
    /\ lookup = NoLookup
    /\ file_heatmap = NoFile
    /\ file_nodemap = NoFile
    /\ file_directlinks = NoFile
    /\ opened = << >>

\* what hass.states.async_all() can return at time t: up to MaxContacts entities
Registries(t) == SeqsUpTo(EntitiesAt(t), MaxContacts)

NextCleanup ==
    Cleanup(Registries(now)) \/ ExportData({"open_err"}, {NoStates}) \/ Tick

SpecCleanup == InitCleanup /\ [][NextCleanup]_vars

\* a coordinator that has loaded self.last_message_times from the snapshot
\* that is on disk, in a directory it cannot write to: the file keeps what was
\* loaded
InitRetention ==
    /\ now = StartTime
    /\ direct_links = NoLinks
    /\ link_keys = << >>
    /\ last_message_times \in LoadedMessages
    /\ greeted_pubkeys = {}
    /\ greet_enabled = TRUE
    /\ file_links = NoFile
    /\ file_messages = [state |-> "ok", data |-> MembersOf(last_message_times),
                        saved_at |-> StartTime]
    /\ file_greeted = NoFile
    /\ n_events = 0
    /\ n_hops = 0
    /\ last_event = NoEvent
    /\ calls = << >>
    /\ greet_hist = NoGreetings
    /\ outbound_failed = FALSE
    /\ saver = IdleSaver
    /\ swept = << >>
    /\ cleanup_enabled = TRUE
    /\ life = Running
    /\ at_shutdown = NotShutDown
    /\ hass_states = NoStates
    /\ lookup = NoLookup
    /\ file_heatmap = NoFile
    /\ file_nodemap = NoFile
    /\ file_directlinks = NoFile
    /\ opened = << >>

\* Sweeps, exports with their save, and the clock, after the load.
SpecRetention == InitRetention /\ [][NextCleanup]_vars

---------------------------------------------------------------------------
(* Lookups of the node resolver *)

\* contact sensors a lookup can meet: two repeaters with the same last_advert,
\* two clients with the same later last_advert (one with its pubkey_prefix in
\* upper case), a repeater without coordinates, a repeater that is no contact
\* sensor, a contact without pubkey_prefix, a contact without last_advert
ResolverPool ==
    { Contact("n1", <<"a", "b">>, TRUE, Repeater, 10),
      Contact("n2", <<"A", "B">>, TRUE, Client, 20),
      Contact("n3", <<"a", "c">>, TRUE, Client, 20),
      Contact("n4", <<"a", "d">>, TRUE, Repeater, 10),
      Contact("n5", <<"a", "e">>, FALSE, Repeater, 30),
      State("other", "n6", <<"a", "f">>, TRUE, Repeater, 30, 0, << >>),
      Contact("n7", << >>, TRUE, Client, 30),
      Contact("n8", <<"c", "a">>, TRUE, Client, 0) }

\* the prefixes looked up
LookupPrefixes == { <<"a">>, <<"A">>, <<"a", "b">>, <<"c">>, <<"d">> }

\* hass.states.async_all() of an installation with up to MaxContacts + 1 of them
ResolverStates == SeqsUpTo(ResolverPool, MaxContacts + 1)

\* a call of _get_node_info(prefix) on the entities hass.states holds
GetNodeInfo(Prefixes) ==
    /\ \E prefix \in Prefixes :
          lookup' = [prefix |-> prefix,
                     info   |-> _get_node_info(hass_states.all, prefix)]
    /\ opened' = << >>
    /\ last_event' = NoEvent
    /\ calls' = << >>
    /\ swept' = << >>
    /\ UNCHANGED <<now, direct_links, link_keys, last_message_times, greeted_pubkeys,
                   greet_enabled, file_links, file_messages, file_greeted,
                   n_events, n_hops, greet_hist, outbound_failed, saver,
                   cleanup_enabled, life, at_shutdown, hass_states,
                   file_heatmap, file_nodemap, file_directlinks>>

\* a coordinator that has seen no event, in an installation with any of the
\* registries of ResolverStates
InitResolve ==
    /\ now = StartTime
    /\ direct_links = NoLinks
    /\ link_keys = << >>
    /\ last_message_times = << >>
    /\ greeted_pubkeys = {}
    /\ greet_enabled = TRUE
    /\ file_links = NoFile
    /\ file_messages = NoFile
    /\ file_greeted = NoFile
    /\ n_events = 0
    /\ n_hops = 0
    /\ last_event = NoEvent
    /\ calls = << >>
    /\ greet_hist = NoGreetings
    /\ outbound_failed = FALSE
    /\ saver = IdleSaver
    /\ swept = << >>
    /\ cleanup_enabled = TRUE
    /\ life = Running
    /\ at_shutdown = NotShutDown
    /\ hass_states \in { [all |-> all, inputs |-> << >>] : all \in ResolverStates }
    /\ lookup = NoLookup
    /\ file_heatmap = NoFile
    /\ file_nodemap = NoFile
    /\ file_directlinks = NoFile
    /\ opened = << >>

NextResolve == GetNodeInfo(LookupPrefixes)

SpecResolve == InitResolve /\ [][NextResolve]_vars

---------------------------------------------------------------------------
(* Exports of the projections *)

\* a meshcore_hops_ sensor with its last_message_time and path_nodes
Hop(name, last_message_time, path_nodes) ==
    State("hops", name, << >>, FALSE, << >>, 0, last_message_time, path_nodes)

\* the hop sensors: one of the start of the model, one a week older, one that
\* has no last_message_time
ProjHopRecords ==
    << Hop("h1", StartTime, << <<"c">>, <<"a">> >>),
       Hop("h2", StartTime - max_age, << <<"A", "B">>, <<"d">>, <<"e">> >>),
       Hop("h3", 0, << <<"d">>, <<"d">> >>) >>

\* input_number.meshcore_heatmap_threshold_hours: not there, 0, not a number
ThresholdInputs ==
    { << >>,
      [e \in {"input_number.meshcore_heatmap_threshold_hours"} |-> Hours(0)],
      [e \in {"input_number.meshcore_heatmap_threshold_hours"} |-> Unavailable] }

\* hass.states at an export.  The contact sensors: X is found under the
\* prefixes a and ab, Y under c, Z under d, nobody under e; or Y has no
\* coordinates and Z is not known
ProjStates ==
    { [all |-> contacts \o ProjHopRecords, inputs |-> inputs] :
        contacts \in { << Contact("X", <<"a", "b", "1">>, TRUE, Repeater, 10),
                          Contact("Y", <<"c", "1">>, TRUE, Client, 20),
                          Contact("Z", <<"d", "1">>, TRUE, Client, 20) >>,
                       << Contact("X", <<"a", "b", "1">>, TRUE, Repeater, 10),
                          Contact("Y", <<"c", "1">>, FALSE, Client, 20) >> },
        inputs \in ThresholdInputs }

\* the paths of one hop the events carry
ProjHops ==
    { << <<"a">>, <<"c">> >>, << <<"A", "B">>, <<"c">> >>, << <<"c">>, <<"d">> >> }

\* a coordinator that has handled one of these paths
InitProject ==
    /\ now = StartTime
    /\ \E path_nodes \in ProjHops :
          LET st == _process_rx_log_data([links |-> NoLinks, keys |-> << >>],
                                         path_nodes, StartTime)
          IN  /\ direct_links = st.links
              /\ link_keys = st.keys
    /\ last_message_times = << >>
    /\ greeted_pubkeys = {}
    /\ greet_enabled = TRUE
    /\ file_links = NoFile
    /\ file_messages = NoFile
    /\ file_greeted = NoFile
    /\ n_events = 0
    /\ n_hops = 0
    /\ last_event = NoEvent
    /\ calls = << >>
    /\ greet_hist = NoGreetings
    /\ outbound_failed = FALSE
    /\ saver = IdleSaver
    /\ swept = << >>
    /\ cleanup_enabled = TRUE
    /\ life = Running
    /\ at_shutdown = NotShutDown
    /\ hass_states = NoStates
    /\ lookup = NoLookup
    /\ file_heatmap = NoFile
    /\ file_nodemap = NoFile
    /\ file_directlinks = NoFile
    /\ opened = << >>

\* the first export of the behaviour, every write succeeding
FirstExport == file_directlinks = NoFile /\ ExportData({"ok"}, ProjStates)

\* Path traces, the clock, and one export of the projections.
NextProject == RxLogData(ProjHops) \/ Tick \/ FirstExport

SpecProject == InitProject /\ [][NextProject]_vars

---------------------------------------------------------------------------
(* Setup and unload of the config entry *)

\* async_initialize, line 93: await of _load_persisted_data
Load ==
    /\ life.pc = "new"
    /\ _load_persisted_data
    /\ life' = [life EXCEPT !.pc = "loaded"]
    /\ last_event' = NoEvent
    /\ calls' = << >>
    /\ swept' = << >>
    /\ UNCHANGED <<now, greet_enabled, file_links, file_messages, file_greeted,
                   n_events, n_hops, greet_hist, outbound_failed, saver,
                   cleanup_enabled, at_shutdown>>
    /\ NoExport

\* what a step of setup or unload that touches no cache leaves alone
OnlyLife ==
    /\ last_event' = NoEvent
    /\ calls' = << >>
    /\ swept' = << >>
    /\ UNCHANGED <<now, direct_links, link_keys, last_message_times, greeted_pubkeys,
                   greet_enabled, file_links, file_messages, file_greeted,
                   n_events, n_hops, greet_hist, outbound_failed, saver,
                   cleanup_enabled, at_shutdown>>
    /\ NoExport

\* self._unsub_listeners.append(registration under handle h)
Registered(h) ==
    [life EXCEPT !.unsub_listeners = Append(@, h), !.active = @ \cup {h}]

\* hass.bus.async_listen placed before the load in async_initialize
ListenBusEarly ==
    /\ life.pc = "new"
    /\ "listener" \notin life.active
    /\ life' = Registered("listener")
    /\ OnlyLife

\* async_initialize, lines 96-98: hass.bus.async_listen
ListenBus ==
    /\ life.pc = "loaded"
    /\ life' = [Registered("listener") EXCEPT !.pc = "listening"]
    /\ OnlyLife

\* async_initialize, lines 101-107: async_track_time_interval of the export
TrackExport ==
    /\ life.pc = "listening"
    /\ life' = [Registered("export_timer") EXCEPT !.pc = "export_scheduled"]
    /\ OnlyLife

\* async_initialize, lines 110-117: async_track_time_interval of the cleanup
TrackCleanup ==
    /\ life.pc = "export_scheduled"
    /\ life' = IF cleanup_enabled
               THEN [Registered("cleanup_timer") EXCEPT !.pc = "timers_set"]
               ELSE [life EXCEPT !.pc = "timers_set"]
    /\ OnlyLife

\* async_initialize, line 120: await self._async_export_data(None).  One of
\* the three projections raises outside its try block (nothing in
\* async_initialize or async_setup_entry catches it), or _export_data gets to
\* the end of _save_persisted_data.
InitialExport(W, States) ==
    /\ life.pc = "timers_set"
    /\ \/ /\ life' = [life EXCEPT !.pc = "setup_failed"]
          /\ hass_states' = NoStates
          /\ opened' = << >>
          /\ UNCHANGED <<direct_links, link_keys, last_message_times,
                         file_links, file_messages, file_greeted,
                         file_heatmap, file_nodemap, file_directlinks>>
       \/ /\ life' = [life EXCEPT !.pc = "initialized"]
          /\ \E states \in States, wh \in W, wn \in W, wd \in W,
                w1 \in W, w2 \in W, w3 \in W :
                /\ ExportProjections(states, wh, wn, wd)
                /\ \E greeted_list \in ListsOf(greeted_pubkeys) :
                      _save_persisted_data(w1, w2, w3, greeted_list)
                /\ opened' = ExportOpened(wh, wn, wd) \o SaveOpened(w1, w2, w3)
    /\ last_event' = NoEvent
    /\ calls' = << >>
    /\ swept' = << >>
    /\ UNCHANGED <<now, greeted_pubkeys, greet_enabled, n_events, n_hops,
                   greet_hist, outbound_failed, saver, cleanup_enabled, at_shutdown,
                   lookup>>

\* async_setup_entry, lines 47-51
FinishSetup ==
    /\ life.pc = "initialized"
    /\ life' = [life EXCEPT !.pc = "running", !.stored = TRUE]
    /\ OnlyLife

\* async_unload_entry, lines 56-60, up to the call of async_shutdown
UnloadEntry ==
    /\ life.pc = "running"
    /\ \E unload_ok \in BOOLEAN :
          life' = IF unload_ok
                  THEN [life EXCEPT !.pc = "unsubbing", !.stored = FALSE, !.i = 1]
                  ELSE life
    /\ OnlyLife

\* async_shutdown, one turn of "for unsub in self._unsub_listeners: unsub()".
\* An unsub() that raises ends async_shutdown, with its own registration
\* removed or not.
Unsub(R) ==
    /\ life.pc = "unsubbing"
    /\ life.i <= Len(life.unsub_listeners)
    /\ LET h == life.unsub_listeners[life.i]
       IN  \E r \in R :
              IF r = "ok"
              THEN life' = [life EXCEPT !.active = @ \ {h}, !.i = @ + 1]
              ELSE \E removed \in BOOLEAN :
                      life' = [life EXCEPT !.pc = "shutdown_failed",
                                           !.active = IF removed THEN @ \ {h} ELSE @]
    /\ OnlyLife

\* async_shutdown, line 130: the save after the loop
FinalSave(W) ==
    /\ life.pc = "unsubbing"
    /\ life.i > Len(life.unsub_listeners)
    /\ at_shutdown' = [taken |-> TRUE, now |-> now, links |-> direct_links,
                       msgs |-> last_message_times, greeted |-> greeted_pubkeys,
                       last_event |-> last_event]
    /\ \E w1 \in W, w2 \in W, w3 \in W :
          /\ \E greeted_list \in ListsOf(greeted_pubkeys) :
                _save_persisted_data(w1, w2, w3, greeted_list)
          /\ opened' = SaveOpened(w1, w2, w3)
    /\ life' = [life EXCEPT !.pc = "down"]
    /\ last_event' = NoEvent
    /\ calls' = << >>
    /\ swept' = << >>
    /\ hass_states' = NoStates
    /\ UNCHANGED <<now, greeted_pubkeys, greet_enabled, n_events, n_hops,
                   greet_hist, outbound_failed, saver, cleanup_enabled, lookup,
                   file_heatmap, file_nodemap, file_directlinks>>

\* async_setup_entry, line 44, for an entry that was unloaded: a new
\* coordinator, with the caches __init__ gives it
Restart ==
    /\ life.pc = "down"
    /\ direct_links' = NoLinks
    /\ link_keys' = << >>
    /\ last_message_times' = << >>
    /\ greeted_pubkeys' = {}
    /\ life' = [life EXCEPT !.pc = "new", !.unsub_listeners = << >>, !.i = 0,
                            !.setups = @ + 1]
    /\ last_event' = NoEvent
    /\ calls' = << >>
    /\ swept' = << >>
    /\ UNCHANGED <<now, greet_enabled, file_links, file_messages, file_greeted,
                   n_events, n_hops, greet_hist, outbound_failed, saver,
                   cleanup_enabled, at_shutdown>>
    /\ NoExport

\* a coordinator as __init__ leaves it, before async_initialize
Constructed ==
    [pc |-> "new", unsub_listeners |-> << >>, active |-> {}, i |-> 0, ran |-> {},
     setups |-> 1, stored |-> FALSE]

InitLife ==
    /\ now = StartTime
    /\ direct_links = NoLinks
    /\ link_keys = << >>
    /\ last_message_times = << >>
    /\ greeted_pubkeys = {}
    /\ greet_enabled = TRUE
    /\ file_links = NoFile
    /\ file_messages = NoFile
    /\ file_greeted = NoFile
    /\ n_events = 0
    /\ n_hops = 0
    /\ last_event = NoEvent
    /\ calls = << >>
    /\ greet_hist = NoGreetings
    /\ outbound_failed = FALSE
    /\ saver = IdleSaver
    /\ swept = << >>
    /\ cleanup_enabled \in BOOLEAN
    /\ life = Constructed
    /\ at_shutdown = NotShutDown
    /\ hass_states = NoStates
    /\ lookup = NoLookup
    /\ file_heatmap = NoFile
    /\ file_nodemap = NoFile
    /\ file_directlinks = NoFile
    /\ opened = << >>

\* hass.states.async_all() of an installation with one entity
OneEntity(t) == { <<e>> : e \in EntitiesAt(t) }

\* Setup of the entry, the callbacks hass runs for the registrations that are
\* in place, and unload.
NextLife ==
    \/ Load \/ ListenBus \/ TrackExport \/ TrackCleanup
    \/ InitialExport({"ok"}, {NoStates}) \/ FinishSetup
    \/ UnloadEntry \/ Unsub({"ok", "raises"}) \/ FinalSave({"ok"})
    \/ RxLogData(Paths) \/ ExportData({"ok"}, {NoStates}) \/ Cleanup(OneEntity(now))

SpecLife == InitLife /\ [][NextLife]_vars

\* the last-message times an earlier run left in memory: one a week old when
\* the model starts, one of this moment
RetainedMessages == (K1 :> (StartTime - max_age)) @@ (K2 :> StartTime)

\* the store an earlier run left in memory: the path a, b recorded a week
\* before the model starts
RetainedLinks ==
    _process_rx_log_data([links |-> NoLinks, keys |-> << >>],
                         << <<"a">>, <<"B">> >>, StartTime - max_age)

InitPersist ==
    /\ now = StartTime
    /\ direct_links = RetainedLinks.links
    /\ link_keys = RetainedLinks.keys
    /\ last_message_times = RetainedMessages
    /\ greeted_pubkeys = {}
    /\ greet_enabled = TRUE
    /\ file_links = NoFile
    /\ file_messages = NoFile
    /\ file_greeted = NoFile
    /\ n_events = 0
    /\ n_hops = 0
    /\ last_event = NoEvent
    /\ calls = << >>
    /\ greet_hist = NoGreetings
    /\ outbound_failed = FALSE
    /\ saver = IdleSaver
    /\ swept = << >>
    /\ cleanup_enabled = TRUE
    /\ life = Running
    /\ at_shutdown = NotShutDown
    /\ hass_states = NoStates
    /\ lookup = NoLookup
    /\ file_heatmap = NoFile
    /\ file_nodemap = NoFile
    /\ file_directlinks = NoFile
    /\ opened = << >>

\* paths of one hop
Hops == { p \in Paths : Len(p) = 2 }

\* the events of one behaviour: MaxHops hops and greetings together
MoreEvents == n_events + n_hops < MaxHops

HopEvent == MoreEvents /\ RxLogData(Hops)

ClientEvent == MoreEvents /\ NewContact(Clients, {1}, {"ok", "notify_fails"})

\* Events on a running coordinator, then unload with every unsub() and every
\* write succeeding, then setup of the entry again up to the load.
NextPersist ==
    \/ HopEvent \/ ClientEvent \/ Tick
    \/ UnloadEntry \/ Unsub({"ok"}) \/ FinalSave({"ok"})
    \/ Restart \/ Load

SpecPersist == InitPersist /\ [][NextPersist]_vars

\* hass.states at the exports of a store with the keys a, b and c: contact
\* sensors for all three, or none for b
RaceStates ==
    { [all |-> contacts, inputs |-> << >>] :
        contacts \in { << Contact("A", <<"a", "1">>, TRUE, Repeater, 10),
                          Contact("B", <<"b", "1">>, TRUE, Client, 20),
                          Contact("C", <<"c", "1">>, TRUE, Client, 20) >>,
                       << Contact("A", <<"a", "1">>, TRUE, Repeater, 10),
                          Contact("C", <<"c", "1">>, TRUE, Client, 20) >> } }

\* The event loop and the worker thread as in NextConc, the exports reading
\* hass.states.
NextRace ==
    \/ RxLogData(Hops)
    \/ SaveBegin({"ok"}, RaceStates) \/ SaveNext \/ SaveAssign \/ SaveFinish({"ok"})

SpecRace == InitConc /\ [][NextRace]_vars

---------------------------------------------------------------------------
(* Link store properties *)

\* links[a][b] exists => links[b][a] exists with the same count and last_seen
SymmetricStore(links) ==
    \A a \in DOMAIN links : \A b \in DOMAIN links[a] :
        HasLink(links, b, a) /\ links[b][a] = links[a][b]

\* C1: after any sequence of path-trace events from an empty store, every
\* half-edge a->b has its mirror b->a with the same count and last_seen.
C1_Symmetry == SymmetricStore(direct_links)

\* a path that comes back to its first node (a, b, a) has just been recorded
C1_Witness ==
    /\ last_event.kind = "EventType.RX_LOG_DATA"
    /\ Len(last_event.path) = 3
    /\ Lower(last_event.path[1]) = Lower(last_event.path[3])
    /\ Lower(last_event.path[1]) # Lower(last_event.path[2])
    /\ direct_links[Lower(last_event.path[1])][Lower(last_event.path[2])].count = 2

\* a step of ExportData (the only step that keeps the clock and handles no event)
SaveStep == now' = now /\ last_event' = NoEvent

\* C2: a save at time now on a symmetric store leaves no half-edge older than
\* now - 7 days and no node with an empty destination map, keeps every half-edge
\* inside the window as it was, and leaves the store symmetric.
C2_PruneOnSave ==
    [][ (SaveStep /\ SymmetricStore(direct_links)) =>
          /\ \A a \in DOMAIN direct_links' : \A b \in DOMAIN direct_links'[a] :
                direct_links'[a][b].last_seen >= now - max_age
          /\ \A a \in DOMAIN direct_links' : DOMAIN direct_links'[a] # {}
          /\ \A a \in DOMAIN direct_links : \A b \in DOMAIN direct_links[a] :
                direct_links[a][b].last_seen >= now - max_age =>
                    /\ HasLink(direct_links', a, b)
                    /\ direct_links'[a][b] = direct_links[a][b]
          /\ SymmetricStore(direct_links') ]_vars

\* two hops were recorded, a save dropped the older link and kept the one that
\* is exactly 7 days old
C2_Witness ==
    /\ n_hops = 2
    /\ last_event = NoEvent
    /\ Cardinality(DOMAIN direct_links) = 2
    /\ \A a \in DOMAIN direct_links :
          /\ Cardinality(DOMAIN direct_links[a]) = 1
          /\ \A b \in DOMAIN direct_links[a] :
                direct_links[a][b] = [last_seen |-> now - max_age, count |-> 1]

\* number of places where x and y are next to each other in path p
Adjacent(p, x, y) ==
    Cardinality({ i \in 1..(Len(p) - 1) :
                    \/ (p[i] = x /\ p[i + 1] = y)
                    \/ (p[i] = y /\ p[i + 1] = x) })

CountOf(links, x, y) == IF HasLink(links, x, y) THEN links[x][y].count ELSE 0

\* C6: a path-trace event with at least 2 nodes at time t gives every pair of
\* distinct adjacent identities both half-edges with last_seen = t and the count
\* raised by the number of times the pair is adjacent in the path, and leaves
\* every half-edge between identities not adjacent in the path untouched.
C6_RecordPath ==
    [][ (last_event'.kind = "EventType.RX_LOG_DATA" /\ Len(last_event'.path) >= 2) =>
          LET p == [i \in DOMAIN last_event'.path |-> Lower(last_event'.path[i])]
              t == last_event'.ts
          IN  \A x \in Nodes, y \in Nodes :
                /\ (x # y /\ Adjacent(p, x, y) > 0) =>
                      /\ HasLink(direct_links', x, y)
                      /\ direct_links'[x][y].last_seen = t
                      /\ direct_links'[x][y].count =
                            CountOf(direct_links, x, y) + Adjacent(p, x, y)
                /\ Adjacent(p, x, y) = 0 =>
                      /\ HasLink(direct_links', x, y) <=> HasLink(direct_links, x, y)
                      /\ HasLink(direct_links, x, y) =>
                            direct_links'[x][y] = direct_links[x][y] ]_vars

\* the same two-node path was recorded a second time, later: count 2, and the
\* third node has no link
C6_Witness ==
    /\ last_event.kind = "EventType.RX_LOG_DATA"
    /\ Len(last_event.path) = 2
    /\ n_hops = 2
    /\ last_event.ts > StartTime
    /\ LET x == Lower(last_event.path[1])
           y == Lower(last_event.path[2])
       IN  /\ x # y
           /\ DOMAIN direct_links = {x, y}
           /\ direct_links[x][y] = [last_seen |-> last_event.ts, count |-> 2]
           /\ direct_links[y][x] = [last_seen |-> last_event.ts, count |-> 2]

---------------------------------------------------------------------------
(* Greeting properties *)

\* the identity a NEW_CONTACT event is about
IdentOf(event) == Prefix(event.pubkey, KeyLen)

\* C3: with greeting enabled and no outbound command failing, an identity that
\* had at least one new-contact event as a client was sent exactly one
\* send_channel_message greeting, however many events there were.
C3_GreetOnce ==
    \A id \in Idents :
        (greet_enabled /\ ~outbound_failed /\ greet_hist[id].client_events >= 1)
            => greet_hist[id].sent = 1

\* two client events for one identity, one greeting
C3_Witness ==
    \E id \in Idents :
        /\ greet_enabled /\ ~outbound_failed
        /\ greet_hist[id].client_events >= 2
        /\ greet_hist[id].sent = 1
        /\ id \in greeted_pubkeys

\* C4: a greeting attempt in which an outbound command fails ends with the
\* identity absent from greeted_pubkeys; the next client new-contact event for
\* that identity issues the greeting command again and, when no command fails,
\* leaves the identity in greeted_pubkeys.
C4_RollbackAndRetry ==
    [][ last_event'.kind = "EventType.NEW_CONTACT" =>
          LET id == IdentOf(last_event')
          IN  /\ CallFailed(calls') => id \notin greeted_pubkeys'
              /\ (/\ id \in Idents
                  /\ greet_hist[id].failed_last
                  /\ greet_enabled
                  /\ last_event'.type = 1) =>
                    /\ calls' # << >>
                    /\ calls'[1].service = "send_channel_message"
                    /\ ~CallFailed(calls') => id \in greeted_pubkeys' ]_vars

\* an identity whose first greeting failed was greeted again, with success
C4_Witness ==
    \E id \in Idents :
        /\ outbound_failed
        /\ greet_hist[id].sent = 2
        /\ ~greet_hist[id].failed_last
        /\ id \in greeted_pubkeys
        /\ IdentOf(last_event) = id

\* C5: a new-contact event of a repeater (type 2) or of another non-client node
\* (a room server, type 3), or any new-contact event while greeting is disabled,
\* issues no outbound command and leaves greeted_pubkeys as it was.
C5_NonClientIgnored ==
    [][ (/\ last_event'.kind = "EventType.NEW_CONTACT"
         /\ (last_event'.type \in {2, 3} \/ ~greet_enabled)) =>
           (calls' = << >> /\ greeted_pubkeys' = greeted_pubkeys) ]_vars

\* C22: whatever the new-contact events and whichever outbound commands fail,
\* no identity had more than one send_channel_message greeting that succeeded.
C22_WelcomeOnce ==
    \A id \in Idents : greet_hist[id].delivered <= 1

\* C11: greeting identities are the first 12 characters of the pubkey without
\* regard to letter case: with no outbound command failing, the identities that
\* differ only in case were sent at most one greeting together, and every
\* entry of greeted_pubkeys is in lower case.
C11_CaseInsensitiveIdentity ==
    ~outbound_failed =>
        /\ \A id \in greeted_pubkeys : id = Lower(id)
        /\ \A id1 \in Idents, id2 \in Idents :
              (id1 # id2 /\ Lower(id1) = Lower(id2)) =>
                  greet_hist[id1].sent + greet_hist[id2].sent <= 1

\* C20: an event of a kind other than path-trace and new-contact, and a
\* path-trace event with fewer than 2 nodes, change none of direct_links,
\* greeted_pubkeys and last_message_times and make no outbound call; a path-trace
\* event leaves greeted_pubkeys alone and a new-contact event direct_links.
C20_IgnoredEvents ==
    [][ last_event' # NoEvent =>
          LET kind == last_event'.kind
              ignored == \/ kind \notin { "EventType.RX_LOG_DATA", "EventType.NEW_CONTACT" }
                         \/ (kind = "EventType.RX_LOG_DATA" /\ Len(last_event'.path) < 2)
          IN  /\ ignored => /\ direct_links' = direct_links
                            /\ link_keys' = link_keys
                            /\ greeted_pubkeys' = greeted_pubkeys
                            /\ last_message_times' = last_message_times
                            /\ calls' = << >>
              /\ kind = "EventType.RX_LOG_DATA" =>
                    (greeted_pubkeys' = greeted_pubkeys /\ calls' = << >>)
              /\ kind = "EventType.NEW_CONTACT" =>
                    (direct_links' = direct_links /\ link_keys' = link_keys) ]_vars

\* an event of an unknown kind, its payload holding a path of 2 nodes and the
\* key of a client not greeted yet, was handled after a link and a greeting
\* were recorded, and changed nothing
C20_Witness ==
    /\ last_event.kind = "EventType.ADVERTISEMENT"
    /\ Len(last_event.path) = 2
    /\ Prefix(last_event.pubkey, KeyLen) \notin greeted_pubkeys
    /\ Cardinality(greeted_pubkeys) = 1
    /\ DOMAIN direct_links = { <<"a">>, <<"b">> }
    /\ direct_links[<<"a">>][<<"b">>].count = 1

---------------------------------------------------------------------------
(* Cleanup properties *)

\* stale as the claim words it, for entity e at time t
StaleAt(e, msgs, t) ==
    /\ ~e.has_advert \/ (t - e.last_advert) > threshold_sec
    /\ e.pubkey_prefix \notin DOMAIN msgs
          \/ (t - msgs[e.pubkey_prefix]) > threshold_sec

\* C8: a sweep at time now issues remove_contact for a contact record with an
\* identity exactly when its last_advert is missing or more than 30 days old and
\* its last-activity entry is missing or more than 30 days old: per identity, as
\* many commands as stale records, and no other command.
C8_RemoveIffStale ==
    [][ swept' # << >> =>
          /\ \A j \in DOMAIN calls' : calls'[j].service = "execute_command"
          /\ \A k \in {K1, K2} :
                Cardinality({ j \in DOMAIN calls' : calls'[j].arg = k }) =
                Cardinality({ i \in DOMAIN swept' :
                                /\ swept'[i].is_contact
                                /\ swept'[i].pubkey_prefix = k
                                /\ StaleAt(swept'[i], last_message_times, now) }) ]_vars

\* a sweep removed one contact and kept another whose advertisement is old but
\* whose last activity is exactly 30 days back
C8_Witness ==
    /\ Len(swept) = 2
    /\ Len(calls) = 1
    /\ calls[1].service = "execute_command"
    /\ \E i \in DOMAIN swept :
          /\ swept[i].is_contact
          /\ swept[i].pubkey_prefix \in DOMAIN last_message_times
          /\ swept[i].has_advert
          /\ (now - swept[i].last_advert) > threshold_sec
          /\ (now - last_message_times[swept[i].pubkey_prefix]) = threshold_sec
          /\ calls[1].arg # swept[i].pubkey_prefix

\* the stale contacts with an identity among the entities, in their order
StaleSeq(states, msgs, t) ==
    SelectSeq(states, LAMBDA e : /\ e.is_contact
                                 /\ e.pubkey_prefix # << >>
                                 /\ StaleAt(e, msgs, t))

\* C16: a sweep attempts remove_contact for every stale contact of the
\* enumeration, in order, whichever of the commands fail.
C16_SweepContinues ==
    [][ swept' # << >> =>
          LET stale == StaleSeq(swept', last_message_times, now)
          IN  /\ Len(calls') = Len(stale)
              /\ \A j \in DOMAIN calls' : calls'[j].arg = stale[j].pubkey_prefix ]_vars

\* the command for the first of two stale contacts failed and the command for
\* the second was issued
C16_Witness ==
    /\ Len(swept) = 2
    /\ Len(calls) = 2
    /\ ~calls[1].ok
    /\ calls[1].arg = swept[1].pubkey_prefix
    /\ calls[2].arg = swept[2].pubkey_prefix
    /\ calls[1].arg # calls[2].arg

\* the message times the snapshot recorded
Recorded == ObjectOf(file_messages.data)

\* C21: a sweep issues no remove_contact for an identity whose recorded
\* message time is at most 30 days back, whatever its last_advert and however
\* many saves ran before the sweep.
C21_ActivityProtects ==
    [][ swept' # << >> =>
          \A k \in DOMAIN Recorded :
             (Recorded[k] # 0 /\ now - Recorded[k] <= threshold_sec) =>
                \A j \in DOMAIN calls' : calls'[j].arg # k ]_vars

---------------------------------------------------------------------------
(* Concurrency properties *)

\* C7: a save and a path-trace event never interfere: once the save is over
\* the store is symmetric and holds every half-edge an event recorded while the
\* save was running.
C7_SaveSerialized ==
    saver.pc = "idle" =>
        /\ SymmetricStore(direct_links)
        /\ \A e \in saver.during : HasLink(direct_links, e[1], e[2])

---------------------------------------------------------------------------
(* Resolver properties *)

\* the positions of the contact records whose identity starts with prefix,
\* letter case aside, and that have coordinates
Candidates(all, prefix) ==
    { i \in DOMAIN all :
        /\ all[i].entity = "contact"
        /\ all[i].pubkey_prefix # << >>
        /\ StartsWith(Lower(all[i].pubkey_prefix), Lower(prefix))
        /\ all[i].coords }

\* the candidates among which the record is picked: the repeaters if there
\* are any, else all
Preferred(all, prefix) ==
    LET cands == Candidates(all, prefix)
        reps  == { i \in cands :
                     Contains(Lower(all[i].node_type_str),
                              << "r", "e", "p", "e", "a", "t", "e", "r" >>) }
    IN  IF reps # {} THEN reps ELSE cands

\* a lookup has been made
LookedUp == lookup.prefix # << >>

\* C14: a lookup returns not-found when no contact record with coordinates
\* starts with the prefix, the record when there is one, and else a record with
\* the latest last_advert among the repeaters if there are any, among all if not.
C14_Resolve ==
    LookedUp =>
        LET all   == hass_states.all
            cands == Candidates(all, lookup.prefix)
            pool  == Preferred(all, lookup.prefix)
        IN  /\ cands = {} => ~lookup.info.found
            /\ \A i \in cands : cands = {i} => lookup.info = Match(all[i])
            /\ Cardinality(cands) >= 2 =>
                  \E i \in pool :
                     /\ lookup.info = Match(all[i])
                     /\ \A k \in pool : all[k].last_advert <= all[i].last_advert

\* a repeater was returned although a client that matches has a later
\* last_advert and comes first
C14_Witness ==
    /\ LookedUp
    /\ lookup.info.found
    /\ lookup.info.name = "n1"
    /\ Len(hass_states.all) = 3
    /\ hass_states.all[1].adv_name = "n3"
    /\ Cardinality(Candidates(hass_states.all, lookup.prefix)) = 3

\* C15: among the candidates with the latest last_advert (repeaters if there
\* are any) a lookup returns the one that comes first in hass.states.
C15_FirstOfTies ==
    LookedUp =>
        LET all  == hass_states.all
            pool == Preferred(all, lookup.prefix)
            top  == { i \in pool : \A k \in pool : all[k].last_advert <= all[i].last_advert }
        IN  pool # {} =>
              /\ lookup.info.found
              /\ \A i \in top : (\A k \in top : i <= k) => lookup.info = Match(all[i])

\* two repeaters with the same last_advert matched, behind a client, and the
\* one that comes first of the two was returned
C15_Witness ==
    /\ LookedUp
    /\ Len(hass_states.all) = 3
    /\ hass_states.all[1].adv_name = "n2"
    /\ hass_states.all[2].adv_name = "n4"
    /\ hass_states.all[3].adv_name = "n1"
    /\ lookup.prefix = <<"A">>
    /\ lookup.info.name = "n4"

---------------------------------------------------------------------------
(* Failing writes and reads *)

\* the first export of the behaviour that leaves anything on disk
ExportOnce(W) ==
    /\ file_heatmap = NoFile /\ file_nodemap = NoFile /\ file_directlinks = NoFile
    /\ file_links = NoFile /\ file_messages = NoFile /\ file_greeted = NoFile
    /\ ExportData(W, {NoStates})

\* a new client whose greeting goes out
GreetedClient == MoreEvents /\ NewContact(Clients, {1}, {"ok"})

\* New clients, the clock, and an export each of whose six writes can succeed,
\* fail at open() or fail in json.dump, on a coordinator that holds a link and
\* a last-message time a week old.
NextFail == GreetedClient \/ Tick \/ ExportOnce(WriteOutcomes)

SpecFail == InitPersist /\ [][NextFail]_vars

\* what the snapshot files hold when the integration is set up: no file, a
\* file cut short by a failed json.dump, a file open() refuses to read, and
\* snapshots earlier runs wrote
Unreadable(file) == [file EXCEPT !.state = "unreadable"]

Snapshot(data, stamp) == [state |-> "ok", data |-> data, saved_at |-> stamp]

LinkSnapshots ==
    { Snapshot(JsonLinks(st.keys, st.links), StartTime) :
        st \in { _process_rx_log_data([links |-> NoLinks, keys |-> << >>], p, StartTime) :
                   p \in ProjHops \cup { << >> } } }

MessageSnapshots ==
    { Snapshot(MembersOf(msgs), StartTime) :
        msgs \in { << >>, K1 :> StartTime, (K1 :> StartTime) @@ (K2 :> (StartTime - 1)) } }

GreetedSnapshots ==
    { Snapshot(l, Len(l)) : l \in UNION { ListsOf(S) : S \in SUBSET { K1, K2 } } }

FilesMet(snapshots) ==
    { NoFile, [state |-> "malformed", data |-> << >>, saved_at |-> 0] }
       \cup snapshots \cup { Unreadable(f) : f \in snapshots }

\* a coordinator as __init__ leaves it, with the files an earlier run left
InitLoad ==
    /\ now = StartTime
    /\ direct_links = NoLinks
    /\ link_keys = << >>
    /\ last_message_times = << >>
    /\ greeted_pubkeys = {}
    /\ greet_enabled = TRUE
    /\ file_links \in FilesMet(LinkSnapshots)
    /\ file_messages \in FilesMet(MessageSnapshots)
    /\ file_greeted \in FilesMet(GreetedSnapshots)
    /\ n_events = 0
    /\ n_hops = 0
    /\ last_event = NoEvent
    /\ calls = << >>
    /\ greet_hist = NoGreetings
    /\ outbound_failed = FALSE
    /\ saver = IdleSaver
    /\ swept = << >>
    /\ cleanup_enabled = TRUE
    /\ life = Constructed
    /\ at_shutdown = NotShutDown
    /\ hass_states = NoStates
    /\ lookup = NoLookup
    /\ file_heatmap = NoFile
    /\ file_nodemap = NoFile
    /\ file_directlinks = NoFile
    /\ opened = << >>

NextLoad == Load

SpecLoad == InitLoad /\ [][NextLoad]_vars

\* a coordinator as __init__ leaves it, with the three snapshots an earlier
\* run wrote at its shutdown
InitSetup ==
    /\ now = StartTime
    /\ direct_links = NoLinks
    /\ link_keys = << >>
    /\ last_message_times = << >>
    /\ greeted_pubkeys = {}
    /\ greet_enabled = TRUE
    /\ file_links = Snapshot(JsonLinks(RetainedLinks.keys, RetainedLinks.links),
                             StartTime - max_age)
    /\ file_messages = Snapshot(MembersOf(RetainedMessages), StartTime - max_age)
    /\ file_greeted = Snapshot(<< K2 >>, 1)
    /\ n_events = 0
    /\ n_hops = 0
    /\ last_event = NoEvent
    /\ calls = << >>
    /\ greet_hist = NoGreetings
    /\ outbound_failed = FALSE
    /\ saver = IdleSaver
    /\ swept = << >>
    /\ cleanup_enabled \in BOOLEAN
    /\ life = Constructed
    /\ at_shutdown = NotShutDown
    /\ hass_states = NoStates
    /\ lookup = NoLookup
    /\ file_heatmap = NoFile
    /\ file_nodemap = NoFile
    /\ file_directlinks = NoFile
    /\ opened = << >>

\* async_initialize step by step, with hass running the callbacks of the
\* registrations that are in place between its steps.
NextSetup ==
    \/ Load \/ ListenBus \/ TrackExport \/ TrackCleanup
    \/ InitialExport({"ok"}, {NoStates}) \/ FinishSetup
    \/ HopEvent \/ ClientEvent \/ ExportData({"ok"}, {NoStates})

SpecSetup == InitSetup /\ [][NextSetup]_vars

---------------------------------------------------------------------------
(* Projection properties *)

\* the step is an export
Exported == opened' # << >>

\* the threshold of the heatmap and of the direct links, in seconds, at the
\* export the step makes
ExportLimit ==
    3600 * (IF "input_number.meshcore_heatmap_threshold_hours" \in DOMAIN hass_states'.inputs
               /\ hass_states'.inputs["input_number.meshcore_heatmap_threshold_hours"].numeric
            THEN hass_states'.inputs["input_number.meshcore_heatmap_threshold_hours"].value
            ELSE 168)

\* what the resolver says of a prefix at the export the step makes
Resolved(prefix) == _get_node_info(hass_states'.all, prefix)

\* the half-edges of the store, before the export, that are within the
\* threshold and have both endpoints resolved
Contributing ==
    UNION { { <<a, b>> : b \in { x \in DOMAIN direct_links[a] :
                                   /\ now - direct_links[a][x].last_seen <= ExportLimit
                                   /\ Resolved(a).found
                                   /\ Resolved(x).found } } :
            a \in DOMAIN direct_links }

\* the unordered pair of identities a half-edge connects
PairOf(e) == { Resolved(e[1]).pubkey, Resolved(e[2]).pubkey }

\* the unordered pair of a link entry
EntryPair(link) == { link.from_pubkey, link.to_pubkey }

\* C12: the link list of the direct-links projection has exactly one entry for
\* the pair of identities of each half-edge that is within the threshold and
\* has both endpoints resolved, has no other entry, and each entry's count is
\* the largest count of the half-edges of its pair.
C12_DedupLinks ==
    [][ Exported =>
          LET links == file_directlinks'.data.links
          IN  /\ \A e \in Contributing :
                    Cardinality({ i \in DOMAIN links : EntryPair(links[i]) = PairOf(e) }) = 1
              /\ \A i \in DOMAIN links :
                    LET same == { e \in Contributing : PairOf(e) = EntryPair(links[i]) }
                    IN  /\ same # {}
                        /\ \E e \in same : links[i].count = direct_links[e[1]][e[2]].count
                        /\ \A e \in same : links[i].count >= direct_links[e[1]][e[2]].count
      ]_vars

\* an export wrote one link of count 2 for X and Y from the half-edges a-c of
\* count 1 and ab-c of count 2
C12_Witness ==
    /\ opened # << >>
    /\ file_directlinks.state = "ok"
    /\ HasLink(direct_links, <<"a">>, <<"c">>)
    /\ HasLink(direct_links, <<"a", "b">>, <<"c">>)
    /\ direct_links[<<"a">>][<<"c">>].count = 1
    /\ direct_links[<<"a", "b">>][<<"c">>].count = 2
    /\ Len(file_directlinks.data.links) = 1
    /\ file_directlinks.data.links[1].count = 2

\* C13: each node of the direct-links projection has as link_count the number
\* of entries of the link list it is an endpoint of, and the node list is in
\* descending order of link_count.
C13_LinkCount ==
    [][ Exported =>
          LET links == file_directlinks'.data.links
              nodes == file_directlinks'.data.nodes
          IN  /\ \A i \in DOMAIN nodes :
                    nodes[i].link_count =
                       Cardinality({ j \in DOMAIN links :
                                       nodes[i].name \in { links[j].from_name,
                                                           links[j].to_name } })
              /\ \A i \in DOMAIN nodes, k \in DOMAIN nodes :
                    i < k => nodes[i].link_count >= nodes[k].link_count
      ]_vars

\* the occurrences <<i, j>> of a prefix that resolves to the node called name
\* in the path of a hop record that is within the threshold
Occurrences(name) ==
    LET all == hass_states'.all
    IN  UNION { { <<i, j>> : j \in { x \in DOMAIN all[i].path_nodes :
                                       /\ Resolved(all[i].path_nodes[x]).found
                                       /\ Resolved(all[i].path_nodes[x]).name = name } } :
                i \in { r \in DOMAIN all :
                          /\ all[r].entity = "hops"
                          /\ all[r].last_message_time # 0
                          /\ now - all[r].last_message_time <= ExportLimit } }

\* occurrence o comes before occurrence q
Before(o, q) == o[1] < q[1] \/ (o[1] = q[1] /\ o[2] < q[2])

\* the names of the contacts of the export
ContactNames == { hass_states'.all[i].adv_name : i \in DOMAIN hass_states'.all }

\* C19: the heatmap projection has one node for each contact that a prefix in
\* the path of a hop record within the threshold resolves to, with the number
\* of these occurrences as use_count, in descending order of use_count, nodes
\* of equal use_count in the order of their first occurrence.
C19_UseCount ==
    [][ Exported =>
          LET nodes == file_heatmap'.data.nodes
          IN  /\ \A name \in ContactNames :
                    Cardinality({ i \in DOMAIN nodes : nodes[i].name = name }) =
                       (IF Occurrences(name) # {} THEN 1 ELSE 0)
              /\ \A i \in DOMAIN nodes :
                    /\ nodes[i].name \in ContactNames
                    /\ nodes[i].use_count = Cardinality(Occurrences(nodes[i].name))
              /\ \A i \in DOMAIN nodes, k \in DOMAIN nodes :
                    i < k =>
                      /\ nodes[i].use_count >= nodes[k].use_count
                      /\ nodes[i].use_count = nodes[k].use_count =>
                            \E o \in Occurrences(nodes[i].name) :
                               \A q \in Occurrences(nodes[k].name) : Before(o, q)
      ]_vars

\* an export wrote X with use_count 2 before Y and Z with use_count 1, Y having
\* been met before X
C19_Witness ==
    /\ opened # << >>
    /\ file_heatmap.state = "ok"
    /\ Len(file_heatmap.data.nodes) = 3
    /\ file_heatmap.data.nodes[1] = [name |-> "X", use_count |-> 2]
    /\ file_heatmap.data.nodes[2] = [name |-> "Y", use_count |-> 1]
    /\ file_heatmap.data.nodes[3] = [name |-> "Z", use_count |-> 1]

\* C23: both endpoints of every entry of the link list of a direct-links
\* projection are in its node list.
C23_EndpointsListed ==
    file_directlinks.state = "ok" =>
        LET listed == { file_directlinks.data.nodes[i].name :
                          i \in DOMAIN file_directlinks.data.nodes }
        IN  \A j \in DOMAIN file_directlinks.data.links :
               /\ file_directlinks.data.links[j].from_name \in listed
               /\ file_directlinks.data.links[j].to_name \in listed

---------------------------------------------------------------------------
(* Properties of failing writes and reads *)

\* C17: an export attempts its six writes, in order, whichever of them fail,
\* and leaves in memory the links and last-message times of at most max_age
\* seconds and the greeted set, whatever the writes did.
C17_WritesIsolated ==
    [][ Exported =>
          /\ [i \in DOMAIN opened' |-> opened'[i].path] =
                << "meshcore_heatmap_data.json", "meshcore_nodemap_data.json",
                   "meshcore_directlinks_data.json", "meshcore_directlinks_persist.json",
                   "meshcore_last_messages.json", "meshcore_greeted.json" >>
          /\ \A a \in DOMAIN direct_links \cup DOMAIN direct_links' :
                \A b \in DOMAIN direct_links \cup DOMAIN direct_links' :
                   /\ HasLink(direct_links', a, b) <=>
                         /\ HasLink(direct_links, a, b)
                         /\ now - direct_links[a][b].last_seen <= max_age
                   /\ HasLink(direct_links', a, b) => direct_links'[a][b] = direct_links[a][b]
          /\ \A a \in DOMAIN direct_links' : DOMAIN direct_links'[a] # {}
          /\ DOMAIN last_message_times' =
                { k \in DOMAIN last_message_times : now - last_message_times[k] <= max_age }
          /\ \A k \in DOMAIN last_message_times' :
                last_message_times'[k] = last_message_times[k]
          /\ greeted_pubkeys' = greeted_pubkeys
      ]_vars

\* an export whose first write failed at open(), whose fourth failed in
\* json.dump and whose last succeeded, with a greeted contact, after the stale
\* link and last-message time were dropped
C17_Witness ==
    /\ Len(opened) = 6
    /\ opened[1].outcome = "open_err"
    /\ opened[4].outcome = "dump_err"
    /\ opened[5].outcome = "open_err"
    /\ opened[6].outcome = "ok"
    /\ file_greeted.state = "ok"
    /\ file_greeted.data # << >>
    /\ direct_links = NoLinks
    /\ K1 \notin DOMAIN last_message_times
    /\ K2 \in DOMAIN last_message_times

---------------------------------------------------------------------------
(* Setup and unload properties *)

\* C9: once the entry is torn down (unload done, or setup or unload ended by an
\* exception) no listener or timer registered by async_initialize is still in
\* place and none of their callbacks has run since.
C9_CancelledOnTeardown ==
    life.pc \in TornDown => (life.active = {} /\ life.ran = {})

\* a link is in the window of the save of async_shutdown
Retained(b, x, y) ==
    HasLink(b.links, x, y) /\ (b.now - b.links[x][y].last_seen) <= max_age

\* the load that follows an unload has run
Reloaded == life.pc = "loaded" /\ life.setups = 2

\* C10: after async_shutdown (every write succeeding) and the load of the next
\* setup, direct_links, last_message_times and greeted_pubkeys are what they
\* were before async_shutdown, less the links and last-message times older
\* than 7 days; what the events handled before the shutdown recorded is there.
C10_RestartRoundTrip ==
    Reloaded =>
        LET b == at_shutdown
        IN  /\ DOMAIN direct_links \subseteq Nodes
            /\ \A x \in DOMAIN direct_links :
                  DOMAIN direct_links[x] # {} /\ DOMAIN direct_links[x] \subseteq Nodes
            /\ \A x \in Nodes, y \in Nodes :
                  /\ HasLink(direct_links, x, y) <=> Retained(b, x, y)
                  /\ Retained(b, x, y) => direct_links[x][y] = b.links[x][y]
            /\ DOMAIN last_message_times =
                  { k \in DOMAIN b.msgs : (b.now - b.msgs[k]) <= max_age }
            /\ \A k \in DOMAIN last_message_times : last_message_times[k] = b.msgs[k]
            /\ greeted_pubkeys = b.greeted
            /\ \A id \in Idents :
                  (greet_hist[id].sent >= 1 /\ ~greet_hist[id].failed_last)
                      => id \in greeted_pubkeys
            /\ (/\ b.last_event.kind = "EventType.RX_LOG_DATA"
                /\ (b.now - b.last_event.ts) <= max_age) =>
                  \A i \in 1..(Len(b.last_event.path) - 1) :
                     LET x == Lower(b.last_event.path[i])
                         y == Lower(b.last_event.path[i + 1])
                     IN  /\ HasLink(direct_links, x, y)
                         /\ direct_links[x][y].last_seen = b.last_event.ts

\* the load brought back a greeted identity, a link recorded by an event and the
\* last-message time inside the window, and not the link and the last-message
\* time that were older
C10_Witness ==
    /\ Reloaded
    /\ greeted_pubkeys # {}
    /\ \E x \in Nodes, y \in Nodes :
          HasLink(direct_links, x, y) /\ direct_links[x][y].last_seen >= StartTime
    /\ \E x \in Nodes, y \in Nodes :
          HasLink(at_shutdown.links, x, y) /\ ~HasLink(direct_links, x, y)
    /\ DOMAIN last_message_times = {K2}
    /\ DOMAIN at_shutdown.msgs = {K1, K2}

\* C24: nothing is registered before the load; the load finds the caches as
\* __init__ left them, no event having been handled, so it overwrites nothing
\* an event recorded; an event is handled only through the listener registered
\* after the load; and files are written only once the load and the
\* registrations are done.
C24_LoadFirst ==
    [][ /\ life.pc = "new" =>
              /\ life.active = {}
              /\ life'.pc = "loaded"
              /\ n_events = 0 /\ n_hops = 0
              /\ direct_links = NoLinks
              /\ last_message_times = << >>
              /\ greeted_pubkeys = {}
        /\ last_event'.kind # "" =>
              /\ life.pc \notin { "new", "loaded" }
              /\ "listener" \in life.active
        /\ opened' # << >> =>
              life.pc \notin { "new", "loaded", "listening", "export_scheduled" }
      ]_vars

\* setup is over: the link and the greeted identity of the snapshots are in
\* memory together with a link and a greeted identity of events handled since
C24_Witness ==
    /\ life.pc = "running"
    /\ n_hops >= 1
    /\ n_events >= 1
    /\ HasLink(direct_links, <<"a">>, <<"b">>)
    /\ direct_links[<<"a">>][<<"b">>].last_seen = StartTime - max_age
    /\ \E x \in Nodes, y \in Nodes :
          HasLink(direct_links, x, y) /\ direct_links[x][y].last_seen = StartTime
    /\ K2 \in greeted_pubkeys
    /\ greeted_pubkeys # { K2 }

=============================================================================
